---- MODULE Spec2Model ----
(***************************************************************************)
(* Project storage / virtual file system layer of Extendy:                 *)
(*   - the two path normalizers (fileSystem.ts, storageV2.ts)              *)
(*   - the FileSystemService facade on the v1 (localStorage) and v2        *)
(*     (in-memory cache + write-behind IndexedDB) routes                   *)
(*   - the event bus with its debounced tree:changed                       *)
(*   - the segmented chat log (appendMessage)                              *)
(*   - the v1 -> v2 migration orchestrator                                 *)
(* Strings are sequences of one-character strings, so that prefix tests,   *)
(* splitting and joining are computed character by character as in the     *)
(* source.                                                                 *)
(***************************************************************************)
EXTENDS Integers, Sequences, FiniteSets, TLC

VARIABLES
    \* ---- path normalizers (pure functions, applied by SpecNorm)
    normIn,             \* the input string
    normOut,            \* result record of the last application
    \* ---- facade, common
    useV2,              \* FileSystemService.useV2
    call,               \* the last facade call: name, arguments, return value
    pendingTreeChanged, \* InternalEventBus.pendingTreeChanged (project ids)
    \* ---- facade, v1 route: localStorage records
    lsIndex,            \* extendy:v1:projectsIndex  (sequence of entries)
    lsActive,           \* extendy:v1:activeProjectId
    lsTree,             \* proj:<id>:tree            (id -> V1TreeNode)
    lsFiles,            \* proj:<id>:files:<path>    (id -> path -> content)
    \* ---- facade, v2 route: caches and write-behind store
    v2Index,            \* FileSystemService.v2Index
    v2Docs,             \* FileSystemService.v2Docs  (id -> doc)
    v2Files,            \* FileSystemService.v2Files (id -> path -> content)
    v2ActiveProjectId,  \* FileSystemService.v2ActiveProjectId
    bgPending,          \* whether operations handed to fireAndForget are unsettled
    bgFailed,           \* whether some background operation has rejected
    usedIds,            \* ids nanoid has handed out
    ensuring,           \* ids whose v2EnsureProjectDoc awaits idbGetProject
    \* ---- event bus (SpecBus)
    timers,             \* setTimeout handles alive, per project id
    burst,              \* file events emitted since the pending timer was set
    treeChangedCount,   \* tree:changed emissions, per project id
    busLast,            \* the last step of the bus
    \* ---- chat log (SpecChat)
    chatV2,             \* the cached isV2() answer
    chatMeta,           \* chat meta record or NoMeta
    chatSegs,           \* segment index -> sequence of message ids
    chatPc,             \* position of the running appendMessage
    chatLocal,          \* its locals
    appended,           \* completed appendMessage calls
    \* ---- migration (SpecMig)
    v1Store,            \* the v1 data migrated (index, active, files, chat)
    mig,                \* the v2 stores and KV area the orchestrator writes
    migPc,              \* position of the running migrateToV2IfNeeded
    migLocal,           \* its locals
    migHist,            \* what the runs did (history)
    clock,              \* Date.now()
    \* ---- event delivery and startup (SpecView, SpecSubs, SpecBoot, SpecVfs)
    hv,                 \* the facade call in progress and the event being delivered
    subs,               \* InternalEventBus.listeners and the emits in progress
    boot,               \* the progress of the startup bootstrap
    vfs,                \* the snapshot persister and initializeFromStorage
    \* ---- concurrency (SpecRace, SpecStore)
    parked,             \* a call of migrateToV2IfNeeded waiting at an await
    idb                 \* the indexed store and the operations queued on it

normVars == <<normIn, normOut>>
fsVars   == <<useV2, call, pendingTreeChanged, lsIndex, lsActive, lsTree,
              lsFiles, v2Index, v2Docs, v2Files, v2ActiveProjectId, bgPending,
              bgFailed, usedIds, ensuring>>
busVars  == <<timers, burst, treeChangedCount, busLast>>
chatVars == <<chatV2, chatMeta, chatSegs, chatPc, chatLocal, appended>>
migVars  == <<v1Store, mig, migPc, migLocal, migHist, clock>>
auxVars  == <<hv, subs, boot, vfs, parked, idb>>
vars     == <<normVars, fsVars, busVars, chatVars, migVars, auxVars>>

(***************************************************************************)
(* Strings                                                                 *)
(***************************************************************************)
SLASH == "/"
BSLASH == "\\"
DOT == "."
EmptyStr == << >>
DotDot == <<DOT, DOT>>

Last(s) == s[Len(s)]
Front(s) == SubSeq(s, 1, Len(s) - 1)

StartsWith(s, pre) ==
    /\ Len(pre) <= Len(s)
    /\ SubSeq(s, 1, Len(pre)) = pre

\* String.prototype.slice(n)
Slice(s, n) == SubSeq(s, n + 1, Len(s))

\* Array.prototype.join('/')
RECURSIVE JoinSlash(_)
JoinSlash(parts) ==
    IF Len(parts) = 0 THEN EmptyStr
    ELSE IF Len(parts) = 1 THEN parts[1]
    ELSE JoinSlash(Front(parts)) \o <<SLASH>> \o Last(parts)

\* s.replace(/^[\\/]+/, '') for seps = {"/", "\\"}; s.replace(/^\/+/, '') for {"/"}
RECURSIVE StripLeading(_, _)
StripLeading(s, seps) ==
    IF Len(s) > 0 /\ s[1] \in seps THEN StripLeading(Tail(s), seps) ELSE s

\* s.split(/[\\/]+/): cut at every run of separators
RECURSIVE SplitRunsAcc(_, _, _, _, _)
SplitRunsAcc(s, i, out, cur, inSep) ==
    IF i > Len(s) THEN Append(out, cur)
    ELSE IF s[i] \in {SLASH, BSLASH}
         THEN IF inSep THEN SplitRunsAcc(s, i + 1, out, cur, TRUE)
              ELSE SplitRunsAcc(s, i + 1, Append(out, cur), EmptyStr, TRUE)
         ELSE SplitRunsAcc(s, i + 1, out, Append(cur, s[i]), FALSE)

SplitRuns(s) == SplitRunsAcc(s, 1, << >>, EmptyStr, FALSE)

\* s.split('/'): cut at every slash
RECURSIVE SplitSlashAcc(_, _, _, _)
SplitSlashAcc(s, i, out, cur) ==
    IF i > Len(s) THEN Append(out, cur)
    ELSE IF s[i] = SLASH
         THEN SplitSlashAcc(s, i + 1, Append(out, cur), EmptyStr)
         ELSE SplitSlashAcc(s, i + 1, out, Append(cur, s[i]))

SplitSlash(s) == SplitSlashAcc(s, 1, << >>, EmptyStr)

\* s.replace(/\\/g, '/')
RECURSIVE ReplaceBackslashes(_)
ReplaceBackslashes(s) ==
    IF Len(s) = 0 THEN s
    ELSE <<IF s[1] = BSLASH THEN SLASH ELSE s[1]>> \o ReplaceBackslashes(Tail(s))

\* s.replace(/\/+/g, '/')
RECURSIVE CollapseSlashes(_)
CollapseSlashes(s) ==
    IF Len(s) < 2 THEN s
    ELSE IF s[1] = SLASH /\ s[2] = SLASH THEN CollapseSlashes(Tail(s))
    ELSE <<s[1]>> \o CollapseSlashes(Tail(s))

\* parts.filter(Boolean)
RECURSIVE NonEmptyParts(_)
NonEmptyParts(parts) ==
    IF Len(parts) = 0 THEN << >>
    ELSE IF Len(parts[1]) = 0 THEN NonEmptyParts(Tail(parts))
    ELSE <<parts[1]>> \o NonEmptyParts(Tail(parts))

\* s.lastIndexOf('/'), 1-based; 0 for -1
RECURSIVE LastSlashFrom(_, _)
LastSlashFrom(s, i) ==
    IF i = 0 THEN 0 ELSE IF s[i] = SLASH THEN i ELSE LastSlashFrom(s, i - 1)

LastIndexOfSlash(s) == LastSlashFrom(s, Len(s))

(***************************************************************************)
(* The two normalizers                                                     *)
(***************************************************************************)
\* the loop of fileSystem.ts normalizePath over the segments
RECURSIVE V1Segments(_, _, _)
V1Segments(segs, i, parts) ==
    IF i > Len(segs) THEN parts
    ELSE IF Len(segs[i]) = 0 \/ segs[i] = <<DOT>> THEN V1Segments(segs, i + 1, parts)
    ELSE IF segs[i] = DotDot
         THEN V1Segments(segs, i + 1, IF Len(parts) = 0 THEN parts ELSE Front(parts))
    ELSE V1Segments(segs, i + 1, Append(parts, segs[i]))

\* fileSystem.ts normalizePath (the facade's normalizer, v1 route)
normalizePath(p) ==
    JoinSlash(V1Segments(SplitRuns(StripLeading(p, {SLASH, BSLASH})), 1, << >>))

\* the loop of storageV2.ts normalizePath over the segments: '..' is kept
RECURSIVE V2Segments(_, _, _)
V2Segments(segs, i, parts) ==
    IF i > Len(segs) THEN parts
    ELSE IF Len(segs[i]) = 0 \/ segs[i] = <<DOT>> THEN V2Segments(segs, i + 1, parts)
    ELSE V2Segments(segs, i + 1, Append(parts, segs[i]))

\* a build of storageV2.normalizePath whose first replace lacks the g flag
RECURSIVE ReplaceFirstBackslash(_)
ReplaceFirstBackslash(s) ==
    IF Len(s) = 0 THEN s
    ELSE IF s[1] = BSLASH THEN <<SLASH>> \o Tail(s)
    ELSE <<s[1]>> \o ReplaceFirstBackslash(Tail(s))

v2NormalizeNoGlobalFlag(p) ==
    IF Len(p) = 0 THEN EmptyStr
    ELSE JoinSlash(V2Segments(SplitSlash(StripLeading(ReplaceFirstBackslash(p), {SLASH})),
                              1, << >>))

\* storageV2.ts normalizePath (v2 route, snapshot persister, migration)
v2Normalize(p) ==
    IF Len(p) = 0 THEN EmptyStr
    ELSE JoinSlash(V2Segments(SplitSlash(StripLeading(ReplaceBackslashes(p), {SLASH})),
                              1, << >>))

\* fileSystem.ts dirname
dirname(path) ==
    LET p == normalizePath(path)
        i == LastIndexOfSlash(p)
    IN IF i = 0 THEN EmptyStr ELSE SubSeq(p, 1, i - 1)

\* fileSystem.ts basename
basename(path) ==
    LET p == normalizePath(path)
        i == LastIndexOfSlash(p)
    IN IF i = 0 THEN p ELSE Slice(p, i)

(***************************************************************************)
(* The v1 tree snapshot (V1TreeNode) and the functions that edit it.       *)
(* A node is [type, name, path, children]; a file has no children.         *)
(***************************************************************************)
NoNode == [type |-> "none"]
NoLeaf == [type |-> "none"]

ensureRootTree ==
    [type |-> "directory", name |-> EmptyStr, path |-> EmptyStr, children |-> << >>]

DirNode(name, path) ==
    [type |-> "directory", name |-> name, path |-> path, children |-> << >>]

FileLeaf(name, path) ==
    [type |-> "file", name |-> name, path |-> path, children |-> << >>]

\* children.findIndex(c => c.name = name && c.type in types), 1-based; 0 for -1
FirstMatch(children, name, types) ==
    LET S == {i \in 1..Len(children) :
                 children[i].name = name /\ children[i].type \in types}
    IN IF S = {} THEN 0 ELSE CHOOSE i \in S : \A j \in S : i <= j

RemoveAt(seq, idx) == SubSeq(seq, 1, idx - 1) \o SubSeq(seq, idx + 1, Len(seq))

\* normalizePath(path).split('/').filter(Boolean)
PathParts(path) == NonEmptyParts(SplitSlash(normalizePath(path)))

\* the tail of addOrUpdateFileLeaf: replace the file child of that name, or push
PutLeaf(dir, leaf) ==
    LET idx == FirstMatch(dir.children, leaf.name, {"file"})
    IN [dir EXCEPT !.children =
            IF idx # 0 THEN [@ EXCEPT ![idx] = leaf] ELSE Append(@, leaf)]

\* the walk of ensureDirPath from parts[i] on, creating missing directories;
\* the directory reached receives leaf unless leaf is NoLeaf
RECURSIVE EnsureDirFrom(_, _, _, _)
EnsureDirFrom(node, parts, i, leaf) ==
    IF i > Len(parts)
    THEN IF leaf = NoLeaf THEN node ELSE PutLeaf(node, leaf)
    ELSE LET idx == FirstMatch(node.children, parts[i], {"directory"})
             child == IF idx = 0
                      THEN DirNode(parts[i], JoinSlash(SubSeq(parts, 1, i)))
                      ELSE node.children[idx]
             done == EnsureDirFrom(child, parts, i + 1, leaf)
         IN [node EXCEPT !.children =
                 IF idx = 0 THEN Append(@, done) ELSE [@ EXCEPT ![idx] = done]]

ensureDirPath(root, dirPath) == EnsureDirFrom(root, PathParts(dirPath), 1, NoLeaf)

addOrUpdateFileLeaf(root, filePath) ==
    EnsureDirFrom(root, PathParts(dirname(filePath)), 1,
                  FileLeaf(basename(filePath), filePath))

\* removePathFromTree's walk: the first child of that name, whatever its type
RECURSIVE RemoveWalk(_, _, _)
RemoveWalk(node, parts, depth) ==
    IF node.type # "directory" THEN node
    ELSE LET idx == FirstMatch(node.children, parts[depth], {"file", "directory"})
         IN IF idx = 0 THEN node
            ELSE IF depth = Len(parts)
                 THEN [node EXCEPT !.children = RemoveAt(@, idx)]
            ELSE IF node.children[idx].type = "directory"
                 THEN [node EXCEPT !.children[idx] = RemoveWalk(@, parts, depth + 1)]
            ELSE node

removePathFromTree(root, targetPath) ==
    LET parts == PathParts(targetPath)
    IN IF Len(parts) = 0 THEN root ELSE RemoveWalk(root, parts, 1)

RECURSIVE LocateFrom(_, _, _)
LocateFrom(node, parts, i) ==
    IF i > Len(parts) THEN node
    ELSE IF node.type # "directory" THEN NoNode
    ELSE LET idx == FirstMatch(node.children, parts[i], {"file", "directory"})
         IN IF idx = 0 THEN NoNode ELSE LocateFrom(node.children[idx], parts, i + 1)

\* locateNode: the node found, or NoNode for null
locateNode(root, path) == LocateFrom(root, PathParts(path), 1)

RECURSIVE collectAllPaths(_)
collectAllPaths(n) ==
    IF n.type = "file" THEN <<n.path>>
    ELSE LET RECURSIVE Over(_)
             Over(i) == IF i > Len(n.children) THEN << >>
                        ELSE collectAllPaths(n.children[i]) \o Over(i + 1)
         IN Over(1)

RECURSIVE AddLeaves(_, _, _, _, _)
AddLeaves(root, all, i, from, to) ==
    IF i > Len(all) THEN root
    ELSE LET rel == Slice(all[i], IF Len(from) # 0 THEN Len(from) + 1 ELSE 0)
             newFilePath == IF Len(to) # 0
                            THEN CollapseSlashes(to \o <<SLASH>> \o rel)
                            ELSE rel
         IN AddLeaves(addOrUpdateFileLeaf(root, newFilePath), all, i + 1, from, to)

renamePathInTree(root, fromPath, toPath) ==
    LET from == normalizePath(fromPath)
        to == normalizePath(toPath)
        info == locateNode(root, from)
        removed == removePathFromTree(root, from)
    IN IF from = to THEN root
       ELSE IF info = NoNode THEN root
       ELSE IF info.type = "directory"
            THEN AddLeaves(removed, collectAllPaths(info), 1, from, to)
       ELSE addOrUpdateFileLeaf(removed, to)

\* the file leaves of a tree, as a set of paths
TreeFilePaths(tree) ==
    LET all == collectAllPaths(tree) IN {all[i] : i \in 1..Len(all)}

(***************************************************************************)
(* The facade: values                                                      *)
(***************************************************************************)
\* null / undefined where a string is expected
Null == <<"null">>

\* bounds of the file model
MaxFiles == 2
MaxPathLen == 4

\* a high surrogate code unit with no low surrogate after it
HS == "uD800"
PCT == "%"

A == "a"
B == "b"
C == "c"
D == "d"

\* the paths callers pass, normalized or not
RawPaths ==
    { <<A>>, <<A, SLASH, B>>, <<A, B>>, <<SLASH, A, BSLASH, B>> }

\* a path that is not well-formed UTF-16
MalformedPaths == { <<HS>> }

\* the paths createFolder is called with
FolderPaths == { <<A>>, <<A, SLASH, B>> }

Contents == { <<"h">>, <<"h", "i">> }

EmptyMap == [x \in {} |-> EmptyStr]
Put(f, k, v) == [x \in DOMAIN f \cup {k} |-> IF x = k THEN v ELSE f[x]]
Del(f, k) == [x \in DOMAIN f \ {k} |-> f[x]]
Get(f, k) == IF k \in DOMAIN f THEN f[k] ELSE Null

\* what encodeURIComponent throws
URIError == <<"URIError">>

\* encodeURIComponent, one code unit at a time: '/', '\' and '%' are escaped,
\* a surrogate with no partner is an error, the letters and '.' stay
EncodeUnit(h) ==
    IF h = SLASH THEN <<PCT, "2", "F">>
    ELSE IF h = BSLASH THEN <<PCT, "5", "C">>
    ELSE IF h = PCT THEN <<PCT, "2", "5">>
    ELSE <<h>>

RECURSIVE EncodeUnits(_)
EncodeUnits(path) ==
    IF Len(path) = 0 THEN EmptyStr
    ELSE EncodeUnit(Head(path)) \o EncodeUnits(Tail(path))

encodePath(path) ==
    IF \E i \in 1..Len(path) : path[i] = HS THEN URIError ELSE EncodeUnits(path)

\* decodeURIComponent on a key encodePath wrote
RECURSIVE decodePath(_)
decodePath(encoded) ==
    IF Len(encoded) = 0 THEN EmptyStr
    ELSE IF Head(encoded) = PCT /\ Len(encoded) >= 3
         THEN LET hex == <<encoded[2], encoded[3]>>
                  rest == decodePath(Slice(encoded, 3))
              IN IF hex = <<"2", "F">> THEN <<SLASH>> \o rest
                 ELSE IF hex = <<"5", "C">> THEN <<BSLASH>> \o rest
                 ELSE <<PCT>> \o rest
         ELSE <<Head(encoded)>> \o decodePath(Tail(encoded))

\* the v1 file records of a project: localStorage keys, encoded, to contents
readFileRecord(recs, path) == Get(recs, encodePath(path))
writeFileRecord(recs, path, content) == Put(recs, encodePath(path), content)
deleteFileRecord(recs, path) == Del(recs, encodePath(path))
listAllFilePaths(recs) == {decodePath(k) : k \in DOMAIN recs}

\* p === d || p.startsWith(d + '/')
AtOrUnder(p, d) == p = d \/ StartsWith(p, d \o <<SLASH>>)

RECURSIVE SumSizes(_, _)
SumSizes(files, keys) ==
    IF keys = {} THEN 0
    ELSE LET k == CHOOSE x \in keys : TRUE
         IN Len(files[k]) + SumSizes(files, keys \ {k})

\* v2ComputeStats: a record's size is its content's length
v2ComputeStats(files) ==
    [fileCount |-> Cardinality(DOMAIN files), totalBytes |-> SumSizes(files, DOMAIN files)]

NoDoc == [none |-> TRUE]

\* v2DefaultDoc, without its timestamps and editor state
v2DefaultDoc ==
    [explicitDirs |-> {}, fileCount |-> 0, totalBytes |-> 0, activeFilePath |-> Null]

WithStats(doc, files) ==
    [doc EXCEPT !.fileCount = v2ComputeStats(files).fileCount,
                !.totalBytes = v2ComputeStats(files).totalBytes]

FileEventNames == {"file:created", "file:updated", "file:deleted", "file:moved"}

\* the timers setTimeout has started and that neither fired nor were cleared,
\* counted per project id
Started(live, projectId) ==
    Put(live, projectId,
        (IF projectId \in DOMAIN live THEN live[projectId] ELSE 0) + 1)

\* a scheduleTreeChanged without its "has" test
scheduleTreeChangedAlways(bus, projectId) ==
    [pending |-> bus.pending \cup {projectId},
     timers |-> Started(bus.timers, projectId)]

\* eventBus.ts scheduleTreeChanged on bus = [pending: the keys of
\* pendingTreeChanged, timers: the live timers]
scheduleTreeChanged(bus, projectId) ==
    IF projectId \in bus.pending THEN bus
    ELSE [pending |-> bus.pending \cup {projectId},
          timers |-> Started(bus.timers, projectId)]

\* eventBus.ts emit, for the events of one facade call: file events of a
\* project with a non-empty id schedule its tree:changed
RECURSIVE EmitAll(_, _, _)
EmitAll(pending, events, i) ==
    IF i > Len(events) THEN pending
    ELSE EmitAll(IF events[i].name \in FileEventNames /\ events[i].projectId # ""
                 THEN scheduleTreeChanged([pending |-> pending, timers |-> EmptyMap],
                                          events[i].projectId).pending
                 ELSE pending,
                 events, i + 1)

\* the orders Array.prototype.sort((a, b) => b.length - a.length) can give a set
\* of paths whose enumeration order is not known
Orders(S) ==
    { s \in [1..Cardinality(S) -> S] :
        \A i, j \in 1..Cardinality(S) : i # j => s[i] # s[j] }

ByLengthDesc(S) ==
    { s \in [1..Cardinality(S) -> S] :
        /\ \A i, j \in 1..Cardinality(S) : i # j => s[i] # s[j]
        /\ \A i, j \in 1..Cardinality(S) : i < j => Len(s[i]) >= Len(s[j]) }

(***************************************************************************)
(* The facade: FileSystemService, file operations on the active project    *)
(***************************************************************************)
Ev(name, id, path) == [name |-> name, projectId |-> id, path |-> path]
EvMoved(id, from, to) == [name |-> "file:moved", projectId |-> id, from |-> from, to |-> to]

\* the record of a facade call: its name; for writeFile and deleteFile the path
\* and content passed; the value returned; whether the path named a file
\* ("file") or was treated as a directory ("dir"); the number of file records
\* the call removed or moved
Call(op, path, content, ret, kind, n) ==
    [op |-> op, path |-> path, content |-> content, ret |-> ret, kind |-> kind, n |-> n]

NoCall == Call("none", EmptyStr, EmptyStr, "void", "none", 0)

\* getActiveProjectId
getActiveProjectId == IF useV2 THEN v2ActiveProjectId ELSE lsActive

\* this.v2Files.get(id) || new Map()
V2FilesOf(id) == IF id \in DOMAIN v2Files THEN v2Files[id] ELSE EmptyMap
V2DocOf(id) == IF id \in DOMAIN v2Docs THEN v2Docs[id] ELSE NoDoc
\* the file records of a project in localStorage, by encoded key
LsRecsOf(id) == IF id \in DOMAIN lsFiles THEN lsFiles[id] ELSE EmptyMap
\* getAllFiles, v1 route: every listed path with the record read back
LsFilesOf(id) ==
    [q \in listAllFilePaths(LsRecsOf(id)) |-> readFileRecord(LsRecsOf(id), q)]
\* readProjectTree(id) || ensureRootTree()
LsTreeOf(id) == IF id \in DOMAIN lsTree THEN lsTree[id] ELSE ensureRootTree

\* the file map the facade reads for a project on the active route
FilesOf(id) == IF useV2 THEN V2FilesOf(id) ELSE LsFilesOf(id)

\* the normalizer of the active route
Normalize(p) == IF useV2 THEN v2Normalize(p) ELSE normalizePath(p)

\* readFile(path): the content, or Null, or the error thrown
readFile(path) ==
    LET id == getActiveProjectId
    IN IF id = "" THEN Null
       ELSE IF useV2 THEN Get(V2FilesOf(id), v2Normalize(path))
       ELSE IF encodePath(normalizePath(path)) = URIError THEN URIError
       ELSE readFileRecord(LsRecsOf(id), normalizePath(path))

\* the longest path a call may leave: MaxPathLen, or the length of the
\* longest path stored before the call when that is longer
PathBound(paths) ==
    LET lens == {Len(q) : q \in paths} \cup {MaxPathLen}
    IN CHOOSE n \in lens : \A m \in lens : m <= n

\* what stays of the model's size
WithinBounds(files) ==
    /\ Cardinality(DOMAIN files) <= MaxFiles
    /\ \A q \in DOMAIN files :
          Len(q) <= PathBound(DOMAIN V2FilesOf(getActiveProjectId))

\* isDirectoryPath, v1 route
v1IsDirectoryPath(id, p) ==
    LET hit == locateNode(LsTreeOf(id), p)
    IN hit # NoNode /\ hit.type = "directory"

\* the state a facade call leaves on the v2 route
V2Effect(id, files, doc, nOps, events, c) ==
    /\ v2Files' = Put(v2Files, id, files)
    /\ v2Docs' = IF doc = NoDoc THEN v2Docs ELSE Put(v2Docs, id, doc)
    /\ bgPending' = (bgPending \/ nOps > 0)
    /\ pendingTreeChanged' = EmitAll(pendingTreeChanged, events, 1)
    /\ call' = c
    /\ WithinBounds(files)
    /\ UNCHANGED <<useV2, lsIndex, lsActive, lsTree, lsFiles, v2Index,
                   v2ActiveProjectId, bgFailed, usedIds, ensuring>>

\* the state a facade call leaves on the v1 route
V1Effect(id, recs, tree, events, c) ==
    /\ lsFiles' = Put(lsFiles, id, recs)
    /\ lsTree' = Put(lsTree, id, tree)
    /\ pendingTreeChanged' = EmitAll(pendingTreeChanged, events, 1)
    /\ call' = c
    /\ Cardinality(DOMAIN recs) <= MaxFiles
    /\ \A q \in listAllFilePaths(recs) \cup TreeFilePaths(tree) :
          Len(q) <= PathBound(listAllFilePaths(LsRecsOf(id))
                              \cup TreeFilePaths(LsTreeOf(id)))
    /\ UNCHANGED <<useV2, lsIndex, lsActive, v2Index, v2Docs, v2Files,
                   v2ActiveProjectId, bgPending, bgFailed, usedIds, ensuring>>

\* a call that returns at its "if (!id) return"
NoEffect(c) ==
    /\ call' = c
    /\ UNCHANGED <<useV2, pendingTreeChanged, lsIndex, lsActive, lsTree, lsFiles,
                   v2Index, v2Docs, v2Files, v2ActiveProjectId, bgPending,
                   bgFailed, usedIds, ensuring>>

\* a call that ends in an exception before it stored anything
Throws(op, arg) == NoEffect(Call(op, arg, EmptyStr, "throws", "none", 0))

\* ---- writeFile ----------------------------------------------------------
\* the body of writeFile; op, arg and ret are what the call record keeps
WriteFileAs(path, content, op, arg, ret) ==
    LET id == getActiveProjectId
        c == Call(op, arg, content, ret, "file", 0)
    IN IF id = "" THEN NoEffect(c)
       ELSE IF useV2
       THEN LET p == v2Normalize(path)
                files == Put(V2FilesOf(id), p, content)
                doc == V2DocOf(id)
                ev == IF p \in DOMAIN V2FilesOf(id)
                      THEN <<Ev("file:updated", id, p)>>
                      ELSE <<Ev("file:created", id, p)>>
            IN V2Effect(id, files,
                        IF doc = NoDoc THEN NoDoc ELSE WithStats(doc, files),
                        IF doc = NoDoc THEN 1 ELSE 2, ev, c)
       ELSE LET p == normalizePath(path)
                recs == LsRecsOf(id)
                ev == IF readFileRecord(recs, p) # Null
                      THEN <<Ev("file:updated", id, p)>>
                      ELSE <<Ev("file:created", id, p)>>
            IN IF encodePath(p) = URIError THEN Throws(op, arg)
               ELSE V1Effect(id, writeFileRecord(recs, p, content),
                             addOrUpdateFileLeaf(LsTreeOf(id), p), ev, c)

\* a writeFile that stores the record under the path as given
WriteFileRawKey(path, content) ==
    LET id == getActiveProjectId
        c == Call("writeFile", path, content, "void", "file", 0)
        ev == IF path \in DOMAIN FilesOf(id)
              THEN <<Ev("file:updated", id, path)>> ELSE <<Ev("file:created", id, path)>>
    IN IF useV2
       THEN V2Effect(id, Put(V2FilesOf(id), path, content),
                     WithStats(V2DocOf(id), Put(V2FilesOf(id), path, content)), 2, ev, c)
       ELSE IF encodePath(path) = URIError THEN Throws("writeFile", path)
       ELSE V1Effect(id, writeFileRecord(LsRecsOf(id), path, content),
                     addOrUpdateFileLeaf(LsTreeOf(id), path), ev, c)

WriteFile(path, content) == WriteFileAs(path, content, "writeFile", path, "void")

\* ---- updateFile --------------------------------------------------------
\* updateFile(path, content): both routes end in writeFile, whether or not
\* a file is stored at the path; the FileNode built from the arguments is
\* returned
UpdateFile(path, content) ==
    LET p == Normalize(path)
        id == getActiveProjectId
    IN IF id = ""
       THEN NoEffect(Call("updateFile", path, content, "null", "none", 0))
       ELSE IF ~useV2 /\ encodePath(p) = URIError THEN Throws("updateFile", path)
       ELSE WriteFileAs(p, content, "updateFile", path, "file")

\* ---- deletePath ---------------------------------------------------------
DeletedEvents(id, seq) == [i \in 1..Len(seq) |-> Ev("file:deleted", id, seq[i])]

RECURSIVE DelAll(_, _)
DelAll(files, keys) ==
    IF keys = {} THEN files
    ELSE LET k == CHOOSE x \in keys : TRUE IN DelAll(Del(files, k), keys \ {k})

\* deleteFileRecord for each of a set of paths
RECURSIVE DelRecords(_, _)
DelRecords(recs, paths) ==
    IF paths = {} THEN recs
    ELSE LET k == CHOOSE x \in paths : TRUE
         IN DelRecords(deleteFileRecord(recs, k), paths \ {k})

\* the body of deletePath; op, arg and ret are what the call record keeps
DeletePathAs(path, op, arg, ret) ==
    LET id == getActiveProjectId
    IN IF id = "" THEN NoEffect(Call(op, arg, EmptyStr, ret, "none", 0))
       ELSE IF useV2
       THEN LET p == v2Normalize(path)
                files == V2FilesOf(id)
                doc == V2DocOf(id)
                under == {k \in DOMAIN files : AtOrUnder(k, p)}
                gone == IF p \in DOMAIN files THEN {p} ELSE under
                doc1 == IF doc = NoDoc \/ p \in DOMAIN files THEN doc
                        ELSE [doc EXCEPT !.explicitDirs = {d \in @ : v2Normalize(d) # p}]
                left == DelAll(files, gone)
            IN \E order \in Orders(gone) :
                 V2Effect(id, left,
                          IF doc1 = NoDoc THEN NoDoc ELSE WithStats(doc1, left),
                          Cardinality(gone) + (IF doc1 = NoDoc THEN 0 ELSE 1),
                          DeletedEvents(id, order),
                          Call(op, arg, EmptyStr, ret,
                               IF p \in DOMAIN files THEN "file" ELSE "dir",
                               Cardinality(gone)))
       ELSE LET p == normalizePath(path)
                recs == LsRecsOf(id)
                isDir == v1IsDirectoryPath(id, p)
                gone == IF isDir
                        THEN {k \in listAllFilePaths(recs) : AtOrUnder(k, p)}
                        ELSE {p}
                left == DelRecords(recs, gone)
            IN IF ~isDir /\ encodePath(p) = URIError THEN Throws(op, arg)
               ELSE \E order \in Orders(gone) :
                      V1Effect(id, left,
                               removePathFromTree(LsTreeOf(id), p),
                               DeletedEvents(id, order),
                               Call(op, arg, EmptyStr, ret,
                                    IF isDir THEN "dir" ELSE "file",
                                    Cardinality(DOMAIN recs) - Cardinality(DOMAIN left)))

DeletePath(path) == DeletePathAs(path, "deletePath", EmptyStr, "void")

\* ---- deleteFile ---------------------------------------------------------
DeleteFile(path) ==
    LET id == getActiveProjectId
        p == Normalize(path)
        exists == IF useV2 THEN p \in DOMAIN V2FilesOf(id)
                  ELSE readFileRecord(LsRecsOf(id), p) # Null
    IN IF id = ""
       THEN NoEffect(Call("deleteFile", path, EmptyStr, "false", "none", 0))
       ELSE IF ~useV2 /\ encodePath(p) = URIError THEN Throws("deleteFile", path)
       ELSE IF ~exists
       THEN NoEffect(Call("deleteFile", path, EmptyStr, "false", "none", 0))
       ELSE DeletePathAs(p, "deleteFile", path, "true")

\* ---- renamePath ---------------------------------------------------------
\* rel ? `${dst}/${rel}`.replace(/\/+/g, '/') : dst
MovedPath(oldPath, src, dst) ==
    LET rel == IF oldPath = src THEN EmptyStr ELSE Slice(oldPath, Len(src) + 1)
    IN IF Len(rel) # 0 THEN CollapseSlashes(dst \o <<SLASH>> \o rel) ELSE dst

\* the loop of the v2 folder rename over the affected paths, in order
RECURSIVE V2MoveAll(_, _, _, _, _, _, _)
V2MoveAll(files, moves, order, i, id, src, dst) ==
    IF i > Len(order) THEN [files |-> files, moves |-> moves]
    ELSE LET oldPath == order[i]
             newPath == v2Normalize(MovedPath(oldPath, src, dst))
         IN V2MoveAll(Put(Del(files, oldPath), newPath, files[oldPath]),
                      Append(moves, EvMoved(id, oldPath, newPath)),
                      order, i + 1, id, src, dst)

\* the loop of the v1 folder rename: write the new record, delete the old one
\* and stop at the first path encodePath rejects
RECURSIVE V1MoveAll(_, _, _, _, _, _, _)
V1MoveAll(recs, moves, order, i, id, src, dst) ==
    IF i > Len(order) THEN [recs |-> recs, moves |-> moves, threw |-> FALSE]
    ELSE LET oldPath == order[i]
             newPath == MovedPath(oldPath, src, dst)
             rec == readFileRecord(recs, oldPath)
         IN IF rec = Null THEN V1MoveAll(recs, moves, order, i + 1, id, src, dst)
            ELSE IF encodePath(newPath) = URIError
            THEN [recs |-> recs, moves |-> moves, threw |-> TRUE]
            ELSE V1MoveAll(deleteFileRecord(writeFileRecord(recs, newPath, rec), oldPath),
                           Append(moves, EvMoved(id, oldPath, newPath)),
                           order, i + 1, id, src, dst)

\* the number of store operations the v2 renamePath hands to fireAndForget
RenameOps(moves, dirsChanged, hasDoc) ==
    Len(moves) + Cardinality({i \in 1..Len(moves) : moves[i].from # moves[i].to})
    + (IF dirsChanged THEN 1 ELSE 0) + (IF hasDoc THEN 1 ELSE 0)

RenamePath(from, to) ==
    LET id == getActiveProjectId
        src == Normalize(from)
        dst == Normalize(to)
        c(kind, n) == Call("renamePath", EmptyStr, EmptyStr, "void", kind, n)
    IN IF id = "" \/ src = dst THEN NoEffect(c("none", 0))
       ELSE IF useV2
       THEN LET files == V2FilesOf(id)
                doc == V2DocOf(id)
            IN IF src \in DOMAIN files
               THEN V2Effect(id, Put(Del(files, src), dst, files[src]), doc,
                             RenameOps(<<EvMoved(id, src, dst)>>, FALSE, doc # NoDoc),
                             <<EvMoved(id, src, dst)>>, c("file", 1))
               ELSE \E order \in ByLengthDesc({k \in DOMAIN files : AtOrUnder(k, src)}) :
                      LET r == V2MoveAll(files, << >>, order, 1, id, src, dst)
                          dirsChanged == doc # NoDoc /\ src \in doc.explicitDirs
                          doc1 == IF dirsChanged
                                  THEN [doc EXCEPT !.explicitDirs = (@ \ {src}) \cup {dst}]
                                  ELSE doc
                      IN V2Effect(id, r.files, doc1,
                                  RenameOps(r.moves, dirsChanged, doc # NoDoc),
                                  r.moves, c("dir", Len(r.moves)))
       ELSE LET recs == LsRecsOf(id)
                rec == readFileRecord(recs, src)
                tree == renamePathInTree(LsTreeOf(id), src, dst)
                threw(kind, n) == Call("renamePath", EmptyStr, EmptyStr, "throws", kind, n)
            IN IF v1IsDirectoryPath(id, src)
               THEN \E order \in ByLengthDesc({k \in listAllFilePaths(recs) :
                                                  AtOrUnder(k, src)}) :
                      LET r == V1MoveAll(recs, << >>, order, 1, id, src, dst)
                      IN IF r.threw
                         THEN V1Effect(id, r.recs, LsTreeOf(id), r.moves,
                                       threw("dir", Len(r.moves)))
                         ELSE V1Effect(id, r.recs, tree, r.moves, c("dir", Len(r.moves)))
               ELSE IF encodePath(src) = URIError THEN NoEffect(threw("none", 0))
               ELSE IF rec = Null THEN V1Effect(id, recs, tree, << >>, c("file", 0))
               ELSE IF encodePath(dst) = URIError THEN NoEffect(threw("file", 0))
               ELSE V1Effect(id, deleteFileRecord(writeFileRecord(recs, dst, rec), src),
                             tree, <<EvMoved(id, src, dst)>>, c("file", 1))

\* ---- createFolder -------------------------------------------------------
CreateFolder(path) ==
    LET id == getActiveProjectId
        c == Call("createFolder", EmptyStr, EmptyStr, "void", "dir", 0)
    IN IF id = "" THEN NoEffect(c)
       ELSE IF useV2
       THEN LET p == v2Normalize(path)
                doc == V2DocOf(id)
            IN IF doc = NoDoc \/ p \in doc.explicitDirs THEN NoEffect(c)
               ELSE V2Effect(id, V2FilesOf(id),
                             [doc EXCEPT !.explicitDirs = @ \cup {p}], 1,
                             <<Ev("file:created", id, p)>>, c)
       ELSE V1Effect(id, LsRecsOf(id),
                     ensureDirPath(LsTreeOf(id), normalizePath(path)), << >>, c)

\* ---- clear --------------------------------------------------------------
\* for (const p of listAllFilePaths(id)) deleteFileRecord(id, p)
RECURSIVE DeleteAllRecords(_, _)
DeleteAllRecords(recs, paths) ==
    IF paths = {} THEN recs
    ELSE LET p == CHOOSE x \in paths : TRUE
         IN DeleteAllRecords(deleteFileRecord(recs, p), paths \ {p})

\* clear(): every file of the active project goes; no event is emitted
Clear ==
    LET id == getActiveProjectId
        c(n) == Call("clear", EmptyStr, EmptyStr, "void", "none", n)
    IN IF id = "" THEN NoEffect(c(0))
       ELSE IF useV2
       THEN LET doc == V2DocOf(id)
                n == Cardinality(DOMAIN V2FilesOf(id))
            IN V2Effect(id, EmptyMap,
                        IF doc = NoDoc THEN doc ELSE WithStats(doc, EmptyMap),
                        n + (IF doc = NoDoc THEN 0 ELSE 1), << >>, c(0))
       ELSE V1Effect(id, DeleteAllRecords(LsRecsOf(id), listAllFilePaths(LsRecsOf(id))),
                     ensureRootTree, << >>, c(0))

\* ---- the background ------------------------------------------------------
\* a store operation handed to fireAndForget resolves
BgComplete ==
    /\ bgPending
    /\ bgPending' \in BOOLEAN
    /\ UNCHANGED <<useV2, call, pendingTreeChanged, lsIndex, lsActive, lsTree,
                   lsFiles, v2Index, v2Docs, v2Files, v2ActiveProjectId, bgFailed,
                   usedIds, ensuring>>

\* a store operation handed to fireAndForget rejects: the catch logs it
BgFail ==
    /\ bgPending
    /\ bgPending' \in BOOLEAN
    /\ bgFailed' = TRUE
    /\ UNCHANGED <<useV2, call, pendingTreeChanged, lsIndex, lsActive, lsTree,
                   lsFiles, v2Index, v2Docs, v2Files, v2ActiveProjectId, usedIds, ensuring>>

\* the 50 ms timer of scheduleTreeChanged fires: tree:changed is emitted
TreeChangedTimer(projectId) ==
    /\ projectId \in pendingTreeChanged
    /\ pendingTreeChanged' = pendingTreeChanged \ {projectId}
    /\ UNCHANGED <<useV2, call, lsIndex, lsActive, lsTree, lsFiles, v2Index,
                   v2Docs, v2Files, v2ActiveProjectId, bgPending, bgFailed, usedIds, ensuring>>

(***************************************************************************)
(* Spec: the file operations on one active project, on either route        *)
(***************************************************************************)
P1 == "p1"
Entry(id, name) == [id |-> id, name |-> name]

\* the parts of the state a specification does not use
NormIdle == normIn = EmptyStr /\ normOut = [fn |-> "none"]
BusIdle ==
    /\ timers = EmptyMap /\ burst = EmptyMap /\ treeChangedCount = EmptyMap
    /\ busLast = [op |-> "none"]
ChatIdle ==
    /\ chatV2 = FALSE /\ chatMeta = [none |-> TRUE] /\ chatSegs = EmptyMap
    /\ chatPc = "idle" /\ chatLocal = [none |-> TRUE] /\ appended = 0
MigIdle ==
    /\ v1Store = [none |-> TRUE] /\ mig = [none |-> TRUE] /\ migPc = "idle"
    /\ migLocal = [none |-> TRUE] /\ migHist = [none |-> TRUE] /\ clock = 0

ViewIdle == hv = [pc |-> "idle"]
SubsIdle == subs = [none |-> TRUE]
BootIdle == boot = [none |-> TRUE]
VfsIdle == vfs = [none |-> TRUE]
ParkedIdle == parked = [pc |-> "none"]
IdbIdle == idb = [none |-> TRUE]
AuxIdle == ViewIdle /\ SubsIdle /\ BootIdle /\ VfsIdle /\ ParkedIdle /\ IdbIdle

FsIdle ==
    /\ useV2 = FALSE /\ call = NoCall /\ pendingTreeChanged = {}
    /\ lsIndex = << >> /\ lsActive = "" /\ lsTree = EmptyMap /\ lsFiles = EmptyMap
    /\ v2Index = << >> /\ v2Docs = EmptyMap /\ v2Files = EmptyMap
    /\ v2ActiveProjectId = "" /\ bgPending = FALSE /\ bgFailed = FALSE
    /\ usedIds = {} /\ ensuring = {}

\* a session whose bootstrap found project p1, holding no file, as the active one
FsBooted ==
    /\ useV2 \in BOOLEAN
    /\ call = NoCall
    /\ pendingTreeChanged = {}
    /\ lsIndex = IF useV2 THEN << >> ELSE <<Entry(P1, "My Project")>>
    /\ lsActive = IF useV2 THEN "" ELSE P1
    /\ lsTree = IF useV2 THEN EmptyMap ELSE Put(EmptyMap, P1, ensureRootTree)
    /\ lsFiles = IF useV2 THEN EmptyMap ELSE Put(EmptyMap, P1, EmptyMap)
    /\ v2Index = IF useV2 THEN <<Entry(P1, "My Project")>> ELSE << >>
    /\ v2Docs = IF useV2 THEN Put(EmptyMap, P1, v2DefaultDoc) ELSE EmptyMap
    /\ v2Files = IF useV2 THEN Put(EmptyMap, P1, EmptyMap) ELSE EmptyMap
    /\ v2ActiveProjectId = IF useV2 THEN P1 ELSE ""
    /\ bgPending = FALSE
    /\ bgFailed = FALSE
    /\ usedIds = {P1}
    /\ ensuring = {}

Init == FsBooted /\ NormIdle /\ BusIdle /\ ChatIdle /\ MigIdle /\ AuxIdle

Next ==
    \/ \E path \in RawPaths, content \in Contents : WriteFile(path, content)
    \/ \E path \in RawPaths : DeletePath(path)
    \/ \E path \in RawPaths \cup MalformedPaths : DeleteFile(path)
    \/ \E from \in RawPaths, to \in RawPaths : RenamePath(from, to)
    \/ BgComplete
    \/ BgFail

Spec == Init /\ [][Next /\ UNCHANGED <<normVars, busVars, chatVars, migVars, auxVars>>]_vars

(***************************************************************************)
(* SpecProj: the project operations of the facade, on either route.        *)
(* Index entries keep id and name; their timestamps order getProjectList   *)
(* only and are left out.                                                  *)
(***************************************************************************)
\* the ids nanoid hands out, in the order it does: an id is opaque and only
\* its being new matters; MaxProjects is how many projects a run creates
ProjectIds == <<"p1", "p2", "p3", "p4">>
MaxProjects == 3

\* the ids callers pass: every id that may exist
IdArgs == {"p1", "p2", "p3"}

\* the starter files of createProject(name, TRUE); a name is one unit here
\* and a content a short stand-in
IndexHtml == <<"index.html">>
StyleCss == <<"style.css">>
MainJs == <<"main.js">>
StarterPaths == <<IndexHtml, StyleCss, MainJs>>
StarterContent == <<"h">>

RECURSIVE StarterMap(_)
StarterMap(i) ==
    IF i = 0 THEN EmptyMap
    ELSE Put(StarterMap(i - 1), v2Normalize(StarterPaths[i]), StarterContent)

RECURSIVE StarterRecords(_)
StarterRecords(i) ==
    IF i = 0 THEN EmptyMap
    ELSE writeFileRecord(StarterRecords(i - 1), normalizePath(StarterPaths[i]),
                         StarterContent)

RECURSIVE StarterTree(_)
StarterTree(i) ==
    IF i = 0 THEN ensureRootTree
    ELSE addOrUpdateFileLeaf(StarterTree(i - 1), normalizePath(StarterPaths[i]))

\* the doc v2CreateProject builds with the starter files
StarterDoc ==
    [WithStats(v2DefaultDoc, StarterMap(3)) EXCEPT !.activeFilePath = IndexHtml]

\* this.v2Index.filter((e) => e.id !== id)
FilterOut(index, id) == SelectSeq(index, LAMBDA e : e.id # id)

\* a deleteProject that takes the last remaining entry
nextActiveLast(index) == IF Len(index) = 0 THEN "" ELSE index[Len(index)].id

\* idx[0]?.id ?? null
nextActive(index) == IF Len(index) = 0 THEN "" ELSE index[1].id

\* what a project operation leaves of the file-level state
ProjFrame == UNCHANGED <<useV2, pendingTreeChanged, bgFailed>>

CreateProject(name, withStarter) ==
    /\ Cardinality(usedIds) < MaxProjects
    /\ \E id \in {ProjectIds[Cardinality(usedIds) + 1]} :
         LET entry == Entry(id, IF name = "" THEN "Untitled" ELSE name)
         IN /\ usedIds' = usedIds \cup {id}
            /\ call' = Call("createProject", <<id>>, EmptyStr, id, "none", 0)
            /\ IF useV2
               THEN /\ v2Index' = Append(v2Index, entry)
                    /\ v2Docs' = Put(v2Docs, id,
                                     IF withStarter THEN StarterDoc ELSE v2DefaultDoc)
                    /\ v2Files' = Put(v2Files, id,
                                      IF withStarter THEN StarterMap(3) ELSE EmptyMap)
                    /\ v2ActiveProjectId' = id
                    /\ bgPending' = TRUE
                    /\ UNCHANGED <<lsIndex, lsActive, lsTree, lsFiles>>
               ELSE /\ lsIndex' = Append(lsIndex, entry)
                    /\ lsFiles' = IF withStarter THEN Put(lsFiles, id, StarterRecords(3))
                                  ELSE lsFiles
                    /\ lsTree' = Put(lsTree, id,
                                     IF withStarter THEN StarterTree(3) ELSE ensureRootTree)
                    /\ UNCHANGED <<lsActive, v2Index, v2Docs, v2Files,
                                   v2ActiveProjectId, bgPending>>
    /\ ProjFrame /\ UNCHANGED ensuring

DeleteProject(id) ==
    /\ IF useV2
       THEN LET wasActive == v2ActiveProjectId = id
                index == FilterOut(v2Index, id)
            IN /\ v2Files' = [k \in DOMAIN v2Files \ {id} |-> v2Files[k]]
               /\ v2Docs' = [k \in DOMAIN v2Docs \ {id} |-> v2Docs[k]]
               /\ v2Index' = index
               /\ v2ActiveProjectId' = IF wasActive THEN nextActive(index)
                                       ELSE v2ActiveProjectId
               /\ bgPending' = TRUE
               /\ call' = Call("deleteProject", <<id>>, EmptyStr, "void",
                               IF wasActive THEN "active" ELSE "other", Len(index))
               /\ UNCHANGED <<lsIndex, lsActive, lsTree, lsFiles>>
       ELSE LET idx == FilterOut(lsIndex, id)
            IN /\ lsFiles' = [k \in DOMAIN lsFiles \ {id} |-> lsFiles[k]]
               /\ lsTree' = Put(lsTree, id, ensureRootTree)
               /\ lsIndex' = idx
               /\ lsActive' = IF lsActive = id THEN nextActive(idx) ELSE lsActive
               /\ call' = Call("deleteProject", <<id>>, EmptyStr, "void",
                               IF lsActive = id THEN "active" ELSE "other", Len(idx))
               /\ UNCHANGED <<v2Index, v2Docs, v2Files, v2ActiveProjectId, bgPending>>
    /\ ProjFrame /\ UNCHANGED <<usedIds, ensuring>>

\* setActiveProject(id); "" stands for null
SetActiveProject(id) ==
    /\ call' = Call("setActiveProject", <<id>>, EmptyStr, "void", "none", 0)
    /\ IF useV2
       THEN /\ v2ActiveProjectId' = id
            /\ ensuring' = IF id # "" /\ id \notin DOMAIN v2Docs
                           THEN ensuring \cup {id} ELSE ensuring
            /\ bgPending' = TRUE
            /\ UNCHANGED <<lsActive>>
       ELSE /\ lsActive' = id
            /\ UNCHANGED <<v2ActiveProjectId, ensuring, bgPending>>
    /\ ProjFrame
    /\ UNCHANGED <<lsIndex, lsTree, lsFiles, v2Index, v2Docs, v2Files, usedIds>>

\* the idbGetProject that v2EnsureProjectDoc awaits settles: a stored doc, or
\* none and the default doc, is put in the cache; a rejection is logged
EnsureDocSettles(id) ==
    /\ id \in ensuring
    /\ ensuring' = ensuring \ {id}
    /\ \/ /\ \E doc \in {v2DefaultDoc, StarterDoc} : v2Docs' = Put(v2Docs, id, doc)
          /\ bgPending' = TRUE
          /\ UNCHANGED bgFailed
       \/ /\ bgFailed' = TRUE
          /\ UNCHANGED <<v2Docs, bgPending>>
    /\ UNCHANGED <<useV2, call, pendingTreeChanged, lsIndex, lsActive, lsTree,
                   lsFiles, v2Index, v2Files, v2ActiveProjectId, usedIds>>

\* renameProject(id, newName): the index entry of id, if there is one, gets
\* the new name
RenameProject(id, newName) ==
    LET renamed(index) ==
          [i \in 1..Len(index) |->
             IF index[i].id = id THEN Entry(id, newName) ELSE index[i]]
    IN /\ call' = Call("renameProject", <<id>>, EmptyStr, "void", "none", 0)
       /\ IF useV2
          THEN /\ v2Index' = renamed(v2Index)
               /\ bgPending' = (bgPending \/ id \in {v2Index[i].id : i \in 1..Len(v2Index)})
               /\ UNCHANGED lsIndex
          ELSE /\ lsIndex' = renamed(lsIndex)
               /\ UNCHANGED <<v2Index, bgPending>>
       /\ ProjFrame
       /\ UNCHANGED <<lsActive, lsTree, lsFiles, v2Docs, v2Files, v2ActiveProjectId,
                      usedIds, ensuring>>

\* a session with no project yet
InitProj ==
    /\ useV2 \in BOOLEAN
    /\ call = NoCall /\ pendingTreeChanged = {}
    /\ lsIndex = << >> /\ lsActive = "" /\ lsTree = EmptyMap /\ lsFiles = EmptyMap
    /\ v2Index = << >> /\ v2Docs = EmptyMap /\ v2Files = EmptyMap
    /\ v2ActiveProjectId = "" /\ bgPending = FALSE /\ bgFailed = FALSE
    /\ usedIds = {} /\ ensuring = {}
    /\ NormIdle /\ BusIdle /\ ChatIdle /\ MigIdle /\ AuxIdle

NextProj ==
    \/ \E withStarter \in BOOLEAN : CreateProject("n", withStarter)
    \/ \E id \in IdArgs : DeleteProject(id)
    \/ \E id \in IdArgs : RenameProject(id, "m")
    \/ \E id \in IdArgs \cup {""} : SetActiveProject(id)
    \/ \E id \in IdArgs : EnsureDocSettles(id)
    \/ BgComplete /\ UNCHANGED ensuring
    \/ BgFail /\ UNCHANGED ensuring

SpecProj ==
    InitProj /\ [][NextProj /\ UNCHANGED <<normVars, busVars, chatVars, migVars, auxVars>>]_vars

\* the project index and the active id of the route in use, in given stores
IndexIn(v2i, lsi) == IF useV2 THEN v2i ELSE lsi
ActiveIn(v2a, lsa) == IF useV2 THEN v2a ELSE lsa

\* C5: deleteProject(id) of the active project makes the first remaining
\* project in index order the active one, or none when no project remains;
\* deleteProject of another project leaves the active id as it was
C5_DeleteProjectActive ==
    [][\A id \in IdArgs :
         (call'.op = "deleteProject" /\ DeleteProject(id))
         => LET before == IndexIn(v2Index, lsIndex)
                rest == SelectSeq(before, LAMBDA e : e.id # id)
                active == ActiveIn(v2ActiveProjectId, lsActive)
                after == ActiveIn(v2ActiveProjectId', lsActive')
            IN /\ IndexIn(v2Index', lsIndex') = rest
               /\ active = id /\ Len(rest) > 0 => after = rest[1].id
               /\ active = id /\ Len(rest) = 0 => after = ""
               /\ active # id => after = active]_vars

\* the active project, second of three in the index, was deleted and the
\* first of the two remaining became active
C5_Witness ==
    /\ call.op = "deleteProject" /\ call.kind = "active" /\ call.n = 2
    /\ LET index == IndexIn(v2Index, lsIndex)
       IN /\ Len(index) = 2
          /\ ActiveIn(v2ActiveProjectId, lsActive) = index[1].id
          /\ call.path # <<index[1].id>>

(***************************************************************************)
(* SpecBus: the event bus and its debounced tree:changed                   *)
(***************************************************************************)
\* the file events one burst holds at most
MaxBurst == 3

\* the project ids of the payloads; "" stands for a payload without one
BusProjects == {"p1", "p2"}

EventNames == FileEventNames \cup {"project:listChanged"}

\* emit(eventName, {projectId}): a file event of a project schedules its
\* tree:changed; burst counts the file events of the project since its timer
\* was set and treeChangedCount the tree:changed emitted for them
Emit(eventName, projectId) ==
    LET batched == eventName \in FileEventNames /\ projectId # ""
        bus == IF batched
               THEN scheduleTreeChanged([pending |-> pendingTreeChanged,
                                         timers |-> timers], projectId)
               ELSE [pending |-> pendingTreeChanged, timers |-> timers]
    IN /\ batched => burst[projectId] < MaxBurst
       /\ pendingTreeChanged' = bus.pending
       /\ timers' = bus.timers
       /\ burst' = IF ~batched THEN burst
                   ELSE IF projectId \in pendingTreeChanged
                        THEN [burst EXCEPT ![projectId] = @ + 1]
                        ELSE [burst EXCEPT ![projectId] = 1]
       /\ treeChangedCount' = IF batched /\ projectId \notin pendingTreeChanged
                              THEN [treeChangedCount EXCEPT ![projectId] = 0]
                              ELSE treeChangedCount
       /\ busLast' = [op |-> "emit", name |-> eventName, projectId |-> projectId]

\* a timer of scheduleTreeChanged fires: the entry is deleted and
\* tree:changed emitted
TimerFires(projectId) ==
    /\ timers[projectId] > 0
    /\ timers' = [timers EXCEPT ![projectId] = @ - 1]
    /\ pendingTreeChanged' = pendingTreeChanged \ {projectId}
    /\ treeChangedCount' = [treeChangedCount EXCEPT ![projectId] = @ + 1]
    /\ busLast' = [op |-> "timer", name |-> "tree:changed", projectId |-> projectId]
    /\ UNCHANGED burst

\* clearAll: every pending timer is cleared
ClearAll ==
    /\ timers' = [q \in BusProjects |-> 0]
    /\ pendingTreeChanged' = {}
    /\ burst' = [q \in BusProjects |-> 0]
    /\ treeChangedCount' = [q \in BusProjects |-> 0]
    /\ busLast' = [op |-> "clearAll", name |-> "", projectId |-> ""]

InitBus ==
    /\ timers = [q \in BusProjects |-> 0]
    /\ burst = [q \in BusProjects |-> 0]
    /\ treeChangedCount = [q \in BusProjects |-> 0]
    /\ busLast = [op |-> "none"]
    /\ FsIdle /\ NormIdle /\ ChatIdle /\ MigIdle /\ AuxIdle

NextBus ==
    \/ \E eventName \in EventNames, projectId \in BusProjects \cup {""} :
         Emit(eventName, projectId)
    \/ \E projectId \in BusProjects : TimerFires(projectId)
    \/ ClearAll

SpecBus ==
    InitBus /\ [][NextBus /\ UNCHANGED <<normVars, chatVars, migVars, auxVars, useV2, call,
                                         lsIndex, lsActive, lsTree, lsFiles, v2Index,
                                         v2Docs, v2Files, v2ActiveProjectId,
                                         bgPending, bgFailed, usedIds, ensuring>>]_vars

\* C6: per project at most one timer is pending; while it is pending no
\* tree:changed has been emitted for the burst, and once it has fired exactly
\* one has, however many file events the burst held
C6_OneTreeChangedPerBurst ==
    \A q \in BusProjects :
        /\ timers[q] <= 1
        /\ (q \in pendingTreeChanged) = (timers[q] = 1)
        /\ q \in pendingTreeChanged => treeChangedCount[q] = 0
        /\ (q \notin pendingTreeChanged /\ burst[q] > 0) => treeChangedCount[q] = 1

\* a burst of three file events for p1 and one of two for p2 were pending
\* together and each ended in one tree:changed
C6_Witness ==
    /\ pendingTreeChanged = {}
    /\ busLast.op = "timer"
    /\ burst["p1"] = 3 /\ treeChangedCount["p1"] = 1
    /\ burst["p2"] = 2 /\ treeChangedCount["p2"] = 1

(***************************************************************************)
(* SpecChat: the segmented chat log of one project. A message is its       *)
(* number in the order of the appendMessage calls; 0 is a message left in  *)
(* a segment that clearChat hid.                                           *)
(***************************************************************************)
SEGMENT_SIZE_DEFAULT == 100

\* the appendMessage calls of a run
MaxAppend == 101

NoMeta == [none |-> TRUE]
NoLocal == [none |-> TRUE]

ChatMeta(total, segments, size) ==
    [totalMessages |-> total, segments |-> segments, segmentSize |-> size]

\* idbGetChatSegment / readChatSegment: the stored messages, [] when missing
GetChatSegment(segs, idx) == IF idx \in DOMAIN segs THEN segs[idx] ELSE << >>

\* a rollover test that lets a segment grow one past its size
SegmentFullPast(seg, segSize) == Len(seg) > segSize

\* seg.length >= segSize
SegmentFull(seg, segSize) == Len(seg) >= segSize

\* a caller awaits appendMessage(projectId, msg); isV2() has answered
AppendStart ==
    /\ chatPc = "idle"
    /\ appended < MaxAppend
    /\ chatPc' = IF chatV2 THEN "getMeta" ELSE "v1"
    /\ chatLocal' = [msg |-> appended + 1]
    /\ UNCHANGED <<chatV2, chatMeta, chatSegs, appended>>

\* v2: idbGetChatMeta resolves; segSize, segIdx and createdNewSegment are set
AppendGetMeta ==
    /\ chatPc = "getMeta"
    /\ LET meta == IF chatMeta = NoMeta THEN ChatMeta(0, 0, SEGMENT_SIZE_DEFAULT)
                   ELSE chatMeta
       IN chatLocal' = [msg |-> chatLocal.msg,
                        meta |-> meta,
                        segSize |-> IF meta.segmentSize = 0 THEN SEGMENT_SIZE_DEFAULT
                                    ELSE meta.segmentSize,
                        segIdx |-> IF meta.segments > 0 THEN meta.segments - 1 ELSE 0,
                        createdNewSegment |-> meta.segments = 0]
    /\ chatPc' = "getSeg"
    /\ UNCHANGED <<chatV2, chatMeta, chatSegs, appended>>

\* v2: idbGetChatSegment resolves
AppendGetSeg ==
    /\ chatPc = "getSeg"
    /\ LET seg == GetChatSegment(chatSegs, chatLocal.segIdx)
       IN /\ chatLocal' = [msg |-> chatLocal.msg, meta |-> chatLocal.meta,
                           segSize |-> chatLocal.segSize, segIdx |-> chatLocal.segIdx,
                           createdNewSegment |-> chatLocal.createdNewSegment,
                           seg |-> seg]
          /\ chatPc' = IF chatLocal.createdNewSegment THEN "putFirst"
                       ELSE IF SegmentFull(seg, chatLocal.segSize) THEN "rollover"
                       ELSE "putSeg"
    /\ UNCHANGED <<chatV2, chatMeta, chatSegs, appended>>

\* v2: the first segment is stored empty
AppendPutFirst ==
    /\ chatPc = "putFirst"
    /\ chatSegs' = Put(chatSegs, chatLocal.segIdx, << >>)
    /\ chatLocal' = [chatLocal EXCEPT !.seg = << >>]
    /\ chatPc' = IF SegmentFull(<< >>, chatLocal.segSize) THEN "rollover" ELSE "putSeg"
    /\ UNCHANGED <<chatV2, chatMeta, appended>>

\* v2: the last segment is full, the next one is stored empty
AppendRollover ==
    /\ chatPc = "rollover"
    /\ chatSegs' = Put(chatSegs, chatLocal.segIdx + 1, << >>)
    /\ chatLocal' = [chatLocal EXCEPT !.segIdx = @ + 1, !.seg = << >>,
                                      !.createdNewSegment = TRUE]
    /\ chatPc' = "putSeg"
    /\ UNCHANGED <<chatV2, chatMeta, appended>>

\* v2: seg.push(msg) and idbPutChatSegment
AppendPutSeg ==
    /\ chatPc = "putSeg"
    /\ chatSegs' = Put(chatSegs, chatLocal.segIdx, Append(chatLocal.seg, chatLocal.msg))
    /\ chatLocal' = [chatLocal EXCEPT !.seg = Append(@, chatLocal.msg)]
    /\ chatPc' = "putMeta"
    /\ UNCHANGED <<chatV2, chatMeta, appended>>

\* v2: idbPutChatMeta, chat:messageAppended, return
AppendPutMeta ==
    /\ chatPc = "putMeta"
    /\ chatMeta' = ChatMeta(chatLocal.meta.totalMessages + 1,
                            IF chatLocal.createdNewSegment
                            THEN chatLocal.meta.segments + 1
                            ELSE chatLocal.meta.segments,
                            chatLocal.meta.segmentSize)
    /\ appended' = appended + 1
    /\ chatPc' = "idle"
    /\ chatLocal' = NoLocal
    /\ UNCHANGED <<chatV2, chatSegs>>

\* v1: the rest of appendMessage runs without an await
AppendV1 ==
    /\ chatPc = "v1"
    /\ LET meta == IF chatMeta = NoMeta THEN ChatMeta(0, 1, SEGMENT_SIZE_DEFAULT)
                   ELSE chatMeta
           segSize == IF meta.segmentSize = 0 THEN SEGMENT_SIZE_DEFAULT
                      ELSE meta.segmentSize
           segments == IF meta.segments = 0 THEN 1 ELSE meta.segments
           lastIdx == IF segments - 1 > 0 THEN segments - 1 ELSE 0
           stored == GetChatSegment(chatSegs, lastIdx)
           full == SegmentFull(stored, segSize)
           targetIdx == IF full THEN lastIdx + 1 ELSE lastIdx
           seg == IF full THEN << >> ELSE stored
       IN /\ chatSegs' = Put(chatSegs, targetIdx, Append(seg, chatLocal.msg))
          /\ chatMeta' = ChatMeta(meta.totalMessages + 1,
                                  IF targetIdx + 1 > segments THEN targetIdx + 1
                                  ELSE segments,
                                  segSize)
    /\ appended' = appended + 1
    /\ chatPc' = "idle"
    /\ chatLocal' = NoLocal
    /\ UNCHANGED chatV2

\* a project with no chat: never written, or cleared by clearChat, which
\* leaves the old segments behind (all of them on v2, all but segment 0 on v1)
InitChat ==
    /\ chatV2 \in BOOLEAN
    /\ \/ chatMeta = NoMeta /\ chatSegs = EmptyMap
       \/ /\ chatMeta = ChatMeta(0, IF chatV2 THEN 0 ELSE 1, SEGMENT_SIZE_DEFAULT)
          /\ chatSegs = IF chatV2 THEN Put(Put(EmptyMap, 0, <<0, 0>>), 1, <<0>>)
                        ELSE Put(Put(EmptyMap, 0, << >>), 1, <<0>>)
    /\ chatPc = "idle" /\ chatLocal = NoLocal /\ appended = 0
    /\ FsIdle /\ NormIdle /\ BusIdle /\ MigIdle /\ AuxIdle

NextChat ==
    \/ AppendStart
    \/ AppendGetMeta
    \/ AppendGetSeg
    \/ AppendPutFirst
    \/ AppendRollover
    \/ AppendPutSeg
    \/ AppendPutMeta
    \/ AppendV1

SpecChat ==
    InitChat /\ [][NextChat /\ UNCHANGED <<normVars, fsVars, busVars, migVars, auxVars>>]_vars

\* the messages segment i holds after n appends with segment size size
ExpectedSegment(i, n, size) ==
    LET last == IF (i + 1) * size < n THEN (i + 1) * size ELSE n
    IN [j \in 1..(last - i * size) |-> i * size + j]

\* C7: after n awaited appendMessage calls on a project with no chat,
\* totalMessages = n, segments = ceil(n / N) and segment i holds the messages
\* i*N+1 .. min((i+1)*N, n) in the order appended
C7_SegmentRollover ==
    (chatPc = "idle" /\ appended > 0)
    => LET size == chatMeta.segmentSize
       IN /\ chatMeta.totalMessages = appended
          /\ chatMeta.segments = (appended + size - 1) \div size
          /\ \A i \in 0..(chatMeta.segments - 1) :
               GetChatSegment(chatSegs, i) = ExpectedSegment(i, appended, size)

\* 101 appends with segment size 100: the first hundred in segment 0, the
\* last alone in segment 1
C7_Witness ==
    /\ chatPc = "idle" /\ appended = 101
    /\ chatMeta.segmentSize = 100 /\ chatMeta.segments = 2
    /\ Len(chatSegs[0]) = 100 /\ chatSegs[0][100] = 100
    /\ chatSegs[1] = <<101>>

(***************************************************************************)
(* SpecMig: migrateToV2IfNeeded over a v1 store that does not change while *)
(* it runs. Every await is a step that can reject; the session can end at  *)
(* any await; a later session calls the orchestrator again. mig.keys are    *)
(* the keys of the synchronous area that have been written.                *)
(***************************************************************************)
V2_DEFAULT_SEGMENT_SIZE == 100

\* the calls of migrateToV2IfNeeded in a run of the model
MaxRuns == 3

SPACE == " "
MigP1 == <<"p", "1">>
MigP2 == <<"p", "2">>

RECURSIVE TrimStart(_)
TrimStart(s) == IF Len(s) > 0 /\ Head(s) = SPACE THEN TrimStart(Tail(s)) ELSE s

RECURSIVE TrimEnd(_)
TrimEnd(s) == IF Len(s) > 0 /\ Last(s) = SPACE THEN TrimEnd(Front(s)) ELSE s

\* String(id ?? '').trim()
coerceId(id) == TrimEnd(TrimStart(id))

\* item.name || 'Project'
NameOr(name) == IF name = "" THEN "Project" ELSE name

defaultProjectDoc(v2Id, name, now) ==
    [id |-> v2Id, name |-> NameOr(name), createdAt |-> now, updatedAt |-> now,
     fileCount |-> 0, totalBytes |-> 0, lastOpenedAt |-> now, explicitDirs |-> {}]

\* the normalized, non-empty paths of the directories of a v1 tree
RECURSIVE collectExplicitDirsFromTree(_)
collectExplicitDirsFromTree(tree) ==
    IF tree = NoNode THEN {}
    ELSE LET RECURSIVE Over(_)
             Over(i) == IF i > Len(tree.children) THEN {}
                        ELSE collectExplicitDirsFromTree(tree.children[i])
                             \cup Over(i + 1)
             normalized == v2Normalize(IF Len(tree.path) # 0 THEN tree.path
                                       ELSE tree.name)
         IN IF tree.type = "directory"
            THEN (IF Len(normalized) # 0 THEN {normalized} ELSE {}) \cup Over(1)
            ELSE Over(1)

\* Map.set on the dedup map, kept in insertion order
DedupSet(dedup, entry) ==
    IF \E i \in 1..Len(dedup) : dedup[i].id = entry.id
    THEN [i \in 1..Len(dedup) |-> IF dedup[i].id = entry.id THEN entry ELSE dedup[i]]
    ELSE Append(dedup, entry)

NoRun ==
    [now |-> 0, v1Index |-> << >>, i |-> 0, dedup |-> << >>, v2Id |-> EmptyStr,
     doc |-> NoDoc, paths |-> << >>, j |-> 0, meta |-> NoMeta, k |-> 0]

NoHist ==
    [last |-> "none", okRuns |-> 0, stopped |-> FALSE, returned |-> {},
     indexWritten |-> FALSE, activeWritten |-> FALSE,
     rejected |-> FALSE, runRejected |-> FALSE,
     commit |-> [none |-> TRUE], afterOk |-> [none |-> TRUE]]

MigFrame(pc, local, m, hist) ==
    /\ migPc' = pc
    /\ migLocal' = local
    /\ mig' = m
    /\ migHist' = hist
    /\ UNCHANGED <<v1Store, clock>>

\* the history once a store operation has rejected
Rejected(hist, ok) ==
    IF ok THEN hist ELSE [hist EXCEPT !.rejected = TRUE, !.runRejected = TRUE]

\* a rejected await outside the inner try blocks: the orchestrator rethrows
Reject ==
    MigFrame("idle", NoRun, mig,
             [Rejected(migHist, FALSE) EXCEPT !.last = "threw", !.stopped = TRUE])

\* where the for loop of the orchestrator goes next
LoopPc(local) ==
    IF local.i > Len(local.v1Index) THEN "setProjectsIndex" ELSE "kvGetDone"

\* migrateProject has returned for v1Index[i]: the entry is put in dedup
ReturnFromProject(local) ==
    LET item == local.v1Index[local.i]
        entry == [id |-> coerceId(item.id), name |-> NameOr(item.name),
                  lastOpenedAt |-> local.now]
    IN [local EXCEPT !.dedup = DedupSet(@, entry), !.i = @ + 1]

Returned(hist, local) ==
    [hist EXCEPT !.returned = @ \cup {local.v1Index[local.i].id}]

\* a caller calls migrateToV2IfNeeded
MigStart ==
    /\ migPc = "idle"
    /\ clock < MaxRuns
    /\ clock' = clock + 1
    /\ migPc' = "getSchemaVersion"
    /\ migLocal' = [NoRun EXCEPT !.now = clock + 1]
    /\ migHist' = [migHist EXCEPT !.returned = {}, !.indexWritten = FALSE,
                                  !.activeWritten = FALSE, !.runRejected = FALSE]
    /\ UNCHANGED <<v1Store, mig>>

\* a build without the early return on schemaVersion 2
MigGetSchemaVersionNoReturn(ok) ==
    /\ migPc = "getSchemaVersion"
    /\ IF ~ok THEN Reject
       ELSE MigFrame("openDb", migLocal, mig, migHist)

\* const current = await storageV2.getSchemaVersion(); if (current === 2) return
MigGetSchemaVersion(ok) ==
    /\ migPc = "getSchemaVersion"
    /\ IF ~ok THEN Reject
       ELSE IF mig.schemaVersion = 2
            THEN MigFrame("idle", NoRun, mig, [migHist EXCEPT !.last = "early"])
       ELSE MigFrame("openDb", migLocal, mig, migHist)

\* a build that writes the schema version as soon as the stores are open
MigOpenDbCommits(ok) ==
    /\ migPc = "openDb"
    /\ IF ~ok THEN Reject
       ELSE LET local == [migLocal EXCEPT !.v1Index = v1Store.index, !.i = 1]
            IN MigFrame(LoopPc(local), local, [mig EXCEPT !.schemaVersion = 2],
                        migHist)

\* await storageV2.openDb(); the v1 index is read and the loop starts
MigOpenDb(ok) ==
    /\ migPc = "openDb"
    /\ IF ~ok THEN Reject
       ELSE LET local == [migLocal EXCEPT !.v1Index = v1Store.index, !.i = 1]
            IN MigFrame(LoopPc(local), local, mig, migHist)

\* migrateProject: const done = await idbKvGet(done key); if (done) return
MigKvGetDone(ok) ==
    /\ migPc = "kvGetDone"
    /\ IF ~ok THEN Reject
       ELSE IF migLocal.v1Index[migLocal.i].id \in mig.kvDone
            THEN LET local == ReturnFromProject(migLocal)
                 IN MigFrame(LoopPc(local), local, mig, Returned(migHist, migLocal))
       ELSE MigFrame("kvGetMap", migLocal, mig, migHist)

\* the locals of migrateProject once the v2 id is known: the default doc with
\* the explicit dirs of the v1 tree, and the listed file paths in key order
Prepared(local, v2Id, order) ==
    LET item == local.v1Index[local.i]
    IN [local EXCEPT !.v2Id = v2Id,
                     !.doc = [defaultProjectDoc(v2Id, NameOr(item.name), local.now)
                                EXCEPT !.explicitDirs =
                                    collectExplicitDirsFromTree(v1Store.tree[item.id])],
                     !.paths = order, !.j = 1]

\* the orders in which the localStorage scan can list the files of a project
ListedOrders(v1Id) == Orders(listAllFilePaths(v1Store.recs[v1Id]))

\* after the file loop: readChatMeta(v1Id), then the chat copy or the doc
ChatStage(local) ==
    LET chatMetaV1 == v1Store.chat[local.v1Index[local.i].id].meta
    IN IF chatMetaV1 = NoMeta THEN [pc |-> "putProject", local |-> local]
       ELSE [pc |-> "putChatMeta",
             local |-> [local EXCEPT !.meta =
                           ChatMeta(chatMetaV1.totalMessages, chatMetaV1.segments,
                                    IF chatMetaV1.segmentSize = 0
                                    THEN V2_DEFAULT_SEGMENT_SIZE
                                    ELSE chatMetaV1.segmentSize)]]

FileStage(local) ==
    IF local.j <= Len(local.paths) THEN [pc |-> "putFile", local |-> local]
    ELSE ChatStage(local)

\* let v2Id = await idbKvGet(map key)
MigKvGetMap(ok) ==
    /\ migPc = "kvGetMap"
    /\ IF ~ok THEN Reject
       ELSE LET v1Id == migLocal.v1Index[migLocal.i].id
            IN IF v1Id \in DOMAIN mig.kvMap
               THEN \E order \in ListedOrders(v1Id) :
                        LET next == FileStage(Prepared(migLocal, mig.kvMap[v1Id], order))
                        IN MigFrame(next.pc, next.local, mig, migHist)
               ELSE MigFrame("kvSetMap", migLocal, mig, migHist)

\* v2Id = coerceId(v1Id); await idbKvSet(map key, v2Id)
MigKvSetMap(ok) ==
    /\ migPc = "kvSetMap"
    /\ IF ~ok THEN Reject
       ELSE LET v1Id == migLocal.v1Index[migLocal.i].id
                v2Id == coerceId(v1Id)
            IN \E order \in ListedOrders(v1Id) :
                   LET next == FileStage(Prepared(migLocal, v2Id, order))
                   IN MigFrame(next.pc, next.local,
                               [mig EXCEPT !.kvMap = Put(@, v1Id, v2Id)], migHist)

MigFilesOf(m, v2Id) == IF v2Id \in DOMAIN m.files THEN m.files[v2Id] ELSE EmptyMap
MigSegsOf(m, v2Id) == IF v2Id \in DOMAIN m.chatSegs THEN m.chatSegs[v2Id] ELSE EmptyMap

\* a build whose file loop leaves doc.stats alone
MigPutFileUncounted(ok) ==
    /\ migPc = "putFile"
    /\ LET v1Id == migLocal.v1Index[migLocal.i].id
           path == v2Normalize(migLocal.paths[migLocal.j])
           rec == readFileRecord(v1Store.recs[v1Id], path)
           content == IF rec = Null THEN EmptyStr ELSE rec
           copied == ok /\ encodePath(path) # URIError
           next == FileStage([migLocal EXCEPT !.j = @ + 1])
       IN MigFrame(next.pc, next.local,
                   IF copied
                   THEN [mig EXCEPT !.files =
                            Put(@, migLocal.v2Id,
                                Put(MigFilesOf(mig, migLocal.v2Id), path, content))]
                   ELSE mig,
                   Rejected(migHist, ok))

\* one turn of the file loop: await idbPutFile; an error skips the file
MigPutFile(ok) ==
    /\ migPc = "putFile"
    /\ LET v1Id == migLocal.v1Index[migLocal.i].id
           path == v2Normalize(migLocal.paths[migLocal.j])
           rec == readFileRecord(v1Store.recs[v1Id], path)
           content == IF rec = Null THEN EmptyStr ELSE rec
           copied == ok /\ encodePath(path) # URIError
           doc == IF copied
                  THEN [migLocal.doc EXCEPT !.fileCount = @ + 1,
                                            !.totalBytes = @ + Len(content)]
                  ELSE migLocal.doc
           next == FileStage([migLocal EXCEPT !.doc = doc, !.j = @ + 1])
       IN MigFrame(next.pc, next.local,
                   IF copied
                   THEN [mig EXCEPT !.files =
                            Put(@, migLocal.v2Id,
                                Put(MigFilesOf(mig, migLocal.v2Id), path, content))]
                   ELSE mig,
                   Rejected(migHist, ok))

\* await idbPutChatMeta(v2Id, meta); an error ends the chat copy
MigPutChatMeta(ok) ==
    /\ migPc = "putChatMeta"
    /\ IF ~ok THEN MigFrame("putProject", migLocal, mig, Rejected(migHist, ok))
       ELSE MigFrame(IF 0 < migLocal.meta.segments THEN "putChatSegment"
                     ELSE "putProject",
                     [migLocal EXCEPT !.k = 0],
                     [mig EXCEPT !.chatMeta = Put(@, migLocal.v2Id, migLocal.meta)],
                     migHist)

\* one turn of the segment loop: await idbPutChatSegment(v2Id, i, msgs)
MigPutChatSegment(ok) ==
    /\ migPc = "putChatSegment"
    /\ IF ~ok THEN MigFrame("putProject", migLocal, mig, Rejected(migHist, ok))
       ELSE LET v1Id == migLocal.v1Index[migLocal.i].id
                msgs == GetChatSegment(v1Store.chat[v1Id].segs, migLocal.k)
            IN MigFrame(IF migLocal.k + 1 < migLocal.meta.segments
                        THEN "putChatSegment" ELSE "putProject",
                        [migLocal EXCEPT !.k = @ + 1],
                        [mig EXCEPT !.chatSegs =
                            Put(@, migLocal.v2Id,
                                Put(MigSegsOf(mig, migLocal.v2Id), migLocal.k, msgs))],
                        migHist)

\* await idbPutProject(doc)
MigPutProject(ok) ==
    /\ migPc = "putProject"
    /\ IF ~ok THEN Reject
       ELSE MigFrame("kvSetDone", migLocal,
                     [mig EXCEPT !.docs = Put(@, migLocal.v2Id, migLocal.doc)],
                     migHist)

\* await idbKvSet(done key, true); migrateProject returns
MigKvSetDone(ok) ==
    /\ migPc = "kvSetDone"
    /\ IF ~ok THEN Reject
       ELSE LET local == ReturnFromProject(migLocal)
            IN MigFrame(LoopPc(local), local,
                        [mig EXCEPT !.kvDone = @ \cup {migLocal.v1Index[migLocal.i].id}],
                        Returned(migHist, migLocal))

\* await storageV2.setProjectsIndex(Array.from(dedup.values()))
MigSetProjectsIndex(ok) ==
    /\ migPc = "setProjectsIndex"
    /\ IF ~ok THEN Reject
       ELSE MigFrame("setActiveProjectId", migLocal,
                     [mig EXCEPT !.index = migLocal.dedup,
                                 !.keys = @ \cup {"projectsIndex"}],
                     [migHist EXCEPT !.indexWritten = TRUE])

\* await storageV2.setActiveProjectId(activeV1 ? coerceId(activeV1) : null)
MigSetActiveProjectId(ok) ==
    /\ migPc = "setActiveProjectId"
    /\ IF ~ok THEN Reject
       ELSE MigFrame("setSchemaVersion", migLocal,
                     [mig EXCEPT !.active = IF v1Store.active = Null THEN Null
                                            ELSE coerceId(v1Store.active),
                                 !.keys = @ \cup {"activeProjectId"}],
                     [migHist EXCEPT !.activeWritten = TRUE])

\* await storageV2.setSchemaVersion(2); the orchestrator returns
MigSetSchemaVersion(ok) ==
    /\ migPc = "setSchemaVersion"
    /\ IF ~ok THEN Reject
       ELSE LET m == [mig EXCEPT !.schemaVersion = 2]
            IN MigFrame("idle", NoRun, m,
                        [migHist EXCEPT !.last = "ok", !.okRuns = @ + 1,
                                        !.commit = [clean |-> ~migHist.runRejected,
                                                    returned |-> migHist.returned,
                                                    indexWritten |-> migHist.indexWritten,
                                                    activeWritten |-> migHist.activeWritten],
                                        !.afterOk = IF migHist.okRuns = 0 THEN m ELSE @])

\* the session ends while the orchestrator waits on an await
MigCrash ==
    /\ migPc # "idle"
    /\ MigFrame("idle", NoRun, mig,
                [migHist EXCEPT !.last = "crashed", !.stopped = TRUE])

\* the v1 stores migrated: p1 holds a/b and c and a chat of one segment, p2, when
\* there, holds one file and no chat and has lost its name
V1Recs ==
    Put(Put(EmptyMap, MigP1,
            writeFileRecord(writeFileRecord(EmptyMap, <<A, SLASH, B>>, <<"h">>),
                            <<C>>, <<"h", "i">>)),
        MigP2, writeFileRecord(EmptyMap, <<A>>, <<"h">>))

V1Trees ==
    Put(Put(EmptyMap, MigP1,
            addOrUpdateFileLeaf(addOrUpdateFileLeaf(ensureRootTree, <<A, SLASH, B>>),
                                <<C>>)),
        MigP2, addOrUpdateFileLeaf(ensureRootTree, <<A>>))

V1Chats ==
    Put(Put(EmptyMap, MigP1,
            [meta |-> ChatMeta(1, 1, SEGMENT_SIZE_DEFAULT), segs |-> Put(EmptyMap, 0, <<1>>)]),
        MigP2, [meta |-> NoMeta, segs |-> EmptyMap])

V1Indexes ==
    { << >>, <<Entry(MigP1, "My Project")>>,
      <<Entry(MigP1, "My Project"), Entry(MigP2, "")>> }

InitMig ==
    /\ \E index \in V1Indexes :
         \E active \in {Null} \cup {index[i].id : i \in 1..Len(index)} :
            v1Store = [index |-> index, active |-> active, recs |-> V1Recs,
                       tree |-> V1Trees, chat |-> V1Chats]
    /\ mig = [schemaVersion |-> 0, index |-> << >>, active |-> Null, keys |-> {},
              docs |-> EmptyMap, files |-> EmptyMap, chatMeta |-> EmptyMap,
              chatSegs |-> EmptyMap, kvMap |-> EmptyMap, kvDone |-> {}]
    /\ migPc = "idle" /\ migLocal = NoRun /\ migHist = NoHist /\ clock = 0
    /\ FsIdle /\ NormIdle /\ BusIdle /\ ChatIdle /\ AuxIdle

NextMig ==
    \/ MigStart
    \/ \E ok \in BOOLEAN : MigGetSchemaVersion(ok)
    \/ \E ok \in BOOLEAN : MigOpenDb(ok)
    \/ \E ok \in BOOLEAN : MigKvGetDone(ok)
    \/ \E ok \in BOOLEAN : MigKvGetMap(ok)
    \/ \E ok \in BOOLEAN : MigKvSetMap(ok)
    \/ \E ok \in BOOLEAN : MigPutFile(ok)
    \/ \E ok \in BOOLEAN : MigPutChatMeta(ok)
    \/ \E ok \in BOOLEAN : MigPutChatSegment(ok)
    \/ \E ok \in BOOLEAN : MigPutProject(ok)
    \/ \E ok \in BOOLEAN : MigKvSetDone(ok)
    \/ \E ok \in BOOLEAN : MigSetProjectsIndex(ok)
    \/ \E ok \in BOOLEAN : MigSetActiveProjectId(ok)
    \/ \E ok \in BOOLEAN : MigSetSchemaVersion(ok)
    \/ MigCrash

SpecMig ==
    InitMig /\ [][NextMig /\ UNCHANGED <<normVars, fsVars, busVars, chatVars, auxVars>>]_vars

\* the ids of the projects of the v1 index
V1Ids == {v1Store.index[i].id : i \in 1..Len(v1Store.index)}

\* C8: once a call of migrateToV2IfNeeded has completed successfully, the v2
\* state (docs, file records, chat meta and segments, KV flags, index, active
\* pointer, schema version) stays the one that call left, through every later
\* call
C8_MigrateTwice ==
    migHist.okRuns >= 1 => mig = migHist.afterOk

\* a second call has returned after a first one migrated two projects: p1 still
\* has its two files counted once
C8_Witness ==
    /\ migPc = "idle" /\ migHist.last = "early" /\ migHist.okRuns = 1
    /\ mig.schemaVersion = 2 /\ Len(mig.index) = 2
    /\ DOMAIN MigFilesOf(mig, MigP1) = {<<A, SLASH, B>>, <<C>>}
    /\ mig.docs[MigP1].fileCount = 2 /\ mig.docs[MigP1].totalBytes = 3
    /\ GetChatSegment(MigSegsOf(mig, MigP1), 0) = <<1>>

\* C9: schemaVersion is 2 only if, in the run that wrote it, migrateProject
\* returned for every project of the v1 index and the v2 index and the active
\* pointer were written; while no run has completed, schemaVersion is not 2
\* and no call returns at the version check, so each call runs the loop again
C9_VersionWrittenLast ==
    /\ mig.schemaVersion = 2
       => /\ migHist.okRuns >= 1
          /\ migHist.commit.returned = V1Ids
          /\ migHist.commit.indexWritten /\ migHist.commit.activeWritten
          /\ V1Ids \subseteq mig.kvDone
          /\ {"projectsIndex", "activeProjectId"} \subseteq mig.keys
    /\ migHist.okRuns = 0
       => /\ mig.schemaVersion # 2
          /\ migHist.last # "early"
          /\ (migHist.stopped /\ migPc \notin {"idle", "getSchemaVersion", "openDb"})
             => migLocal.v1Index = v1Store.index

\* a run stopped after p1 was copied; the next call went through the loop
\* again, for both projects, and wrote the version
C9_Witness ==
    /\ migHist.stopped /\ migHist.last = "ok" /\ mig.schemaVersion = 2
    /\ migHist.commit.returned = {MigP1, MigP2}
    /\ Len(mig.index) = 2 /\ mig.index[1].lastOpenedAt = 2
    /\ mig.docs[MigP1].lastOpenedAt = 1 /\ mig.docs[MigP2].lastOpenedAt = 2

\* a store operation of migrateProject outside its try blocks rejects
ProjectStepRejects ==
    \/ MigKvGetDone(FALSE) \/ MigKvGetMap(FALSE) \/ MigKvSetMap(FALSE)
    \/ MigPutProject(FALSE) \/ MigKvSetDone(FALSE)

\* C24: when a store operation inside migrateProject rejects, the orchestrator
\* goes on with the next project of the index; when the write of one file
\* rejects, the file loop goes on with the next file of the same project
C24_CopyErrorsSkipped ==
    [][/\ ProjectStepRejects
          => /\ migLocal'.i = migLocal.i + 1
             /\ migPc' = LoopPc(migLocal')
       /\ MigPutFile(FALSE)
          => /\ migLocal'.i = migLocal.i
             /\ migLocal'.j = migLocal.j + 1]_vars

\* the v2 stores hold a full copy of the v1 project id
ProjectCopied(m, id) ==
    LET v2Id == coerceId(id)
        recs == v1Store.recs[id]
        paths == listAllFilePaths(recs)
        files == MigFilesOf(m, v2Id)
        chat == v1Store.chat[id]
    IN /\ v2Id = id
       /\ v2Id \in DOMAIN m.docs
       /\ m.docs[v2Id].id = id
       /\ DOMAIN files = {v2Normalize(q) : q \in paths}
       /\ Cardinality(DOMAIN files) = Cardinality(DOMAIN recs)
       /\ \A q \in paths : files[v2Normalize(q)] = readFileRecord(recs, q)
       /\ m.docs[v2Id].fileCount = Cardinality(DOMAIN recs)
       /\ m.docs[v2Id].totalBytes = SumSizes(recs, DOMAIN recs)
       /\ chat.meta # NoMeta
          => /\ v2Id \in DOMAIN m.chatMeta
             /\ m.chatMeta[v2Id].totalMessages = chat.meta.totalMessages
             /\ m.chatMeta[v2Id].segments = chat.meta.segments
             /\ \A k \in 0..(chat.meta.segments - 1) :
                   /\ k \in DOMAIN MigSegsOf(m, v2Id)
                   /\ MigSegsOf(m, v2Id)[k] = GetChatSegment(chat.segs, k)
       /\ Cardinality({j \in 1..Len(m.index) : m.index[j].id = v2Id}) = 1

\* the v2 stores hold a full copy of the v1 store
AllCopied(m) ==
    /\ \A id \in V1Ids : ProjectCopied(m, id)
    /\ Len(m.index) = Len(v1Store.index)
    /\ m.active = v1Store.active

NoParked == [pc |-> "none"]

\* a second caller calls migrateToV2IfNeeded while a call waits at an await
MigSecondCall ==
    /\ migPc # "idle"
    /\ parked = NoParked
    /\ clock < MaxRuns
    /\ clock' = clock + 1
    /\ parked' = [pc |-> migPc, local |-> migLocal]
    /\ migPc' = "getSchemaVersion"
    /\ migLocal' = [NoRun EXCEPT !.now = clock + 1]
    /\ UNCHANGED <<v1Store, mig, migHist>>

\* the await of the other call settles first; a call that has returned
\* leaves the other one alone
MigSwitch ==
    /\ parked # NoParked
    /\ migPc' = parked.pc
    /\ migLocal' = parked.local
    /\ parked' = IF migPc = "idle" THEN NoParked ELSE [pc |-> migPc, local |-> migLocal]
    /\ UNCHANGED <<v1Store, mig, migHist, clock>>

MigStep ==
    \/ MigStart
    \/ MigGetSchemaVersion(TRUE)
    \/ MigOpenDb(TRUE)
    \/ MigKvGetDone(TRUE)
    \/ MigKvGetMap(TRUE)
    \/ MigKvSetMap(TRUE)
    \/ MigPutFile(TRUE)
    \/ MigPutChatMeta(TRUE)
    \/ MigPutChatSegment(TRUE)
    \/ MigPutProject(TRUE)
    \/ MigKvSetDone(TRUE)
    \/ MigSetProjectsIndex(TRUE)
    \/ MigSetActiveProjectId(TRUE)
    \/ MigSetSchemaVersion(TRUE)

NextRace ==
    \/ MigStep /\ UNCHANGED parked
    \/ MigSecondCall
    \/ MigSwitch

SpecRace ==
    InitMig /\ [][NextRace /\ UNCHANGED <<normVars, fsVars, busVars, chatVars,
                                            hv, subs, boot, vfs, idb>>]_vars

\* C25: when callers of migrateToV2IfNeeded overlap while schemaVersion is
\* not 2, one run executes: the index, the active pointer and the schema
\* version are written once, and each project doc and file record is copied
\* once
C25_SingleFlight ==
    [][/\ MigSetSchemaVersion(TRUE) => mig.schemaVersion # 2
       /\ MigSetProjectsIndex(TRUE) => "projectsIndex" \notin mig.keys
       /\ MigSetActiveProjectId(TRUE) => "activeProjectId" \notin mig.keys
       /\ MigPutProject(TRUE) => migLocal.v2Id \notin DOMAIN mig.docs
       /\ MigPutFile(TRUE)
          => v2Normalize(migLocal.paths[migLocal.j])
                \notin DOMAIN MigFilesOf(mig, migLocal.v2Id)]_vars

(***************************************************************************)
(* SpecResume: runs of migrateToV2IfNeeded that the end of the session     *)
(* stops, with the application running on the v1 store between a stopped   *)
(* run and the next one: it writes and deletes files of the v1 projects.   *)
(* No store operation rejects.                                             *)
(***************************************************************************)
\* the paths the application writes and deletes between runs
EditPaths == { <<C>> }

BetweenRuns == migPc = "idle" /\ migHist.stopped /\ mig.schemaVersion # 2

\* v1 writeFile on project id: the record and the tree leaf
V1StoreWrite(id, path, content) ==
    /\ BetweenRuns
    /\ readFileRecord(v1Store.recs[id], path) # content
    /\ v1Store' = [v1Store EXCEPT
                      !.recs[id] = writeFileRecord(@, path, content),
                      !.tree[id] = addOrUpdateFileLeaf(@, path)]
    /\ UNCHANGED <<mig, migPc, migLocal, migHist, clock>>

\* v1 deletePath on a file of project id
V1StoreDelete(id, path) ==
    /\ BetweenRuns
    /\ readFileRecord(v1Store.recs[id], path) # Null
    /\ v1Store' = [v1Store EXCEPT
                      !.recs[id] = deleteFileRecord(@, path),
                      !.tree[id] = removePathFromTree(@, path)]
    /\ UNCHANGED <<mig, migPc, migLocal, migHist, clock>>

NextResume ==
    \/ MigStep
    \/ MigCrash
    \/ \E id \in V1Ids, path \in EditPaths, content \in Contents :
          V1StoreWrite(id, path, content)
    \/ \E id \in V1Ids, path \in EditPaths : V1StoreDelete(id, path)

SpecResume ==
    InitMig /\ [][NextResume /\ UNCHANGED <<normVars, fsVars, busVars, chatVars, auxVars>>]_vars

\* the v2 file records of the v1 project id are its v1 file records
FilesCurrent(m, id) ==
    LET recs == v1Store.recs[id]
        files == MigFilesOf(m, coerceId(id))
    IN /\ DOMAIN files = {v2Normalize(q) : q \in listAllFilePaths(recs)}
       /\ \A q \in listAllFilePaths(recs) : files[v2Normalize(q)] = readFileRecord(recs, q)

\* C26: when a run stopped before the commit, the application then changed
\* files of the v1 projects and a later run commits, the v2 file records of
\* every project are its v1 file records of the moment of the commit
C26_ResumeCopiesCurrent ==
    mig.schemaVersion = 2 => \A id \in V1Ids : FilesCurrent(mig, id)

(***************************************************************************)
(* SpecView: the file operations with every emit as a state of its own.    *)
(* emit calls the handlers synchronously, so the state in which hv.pc is   *)
(* "handler" is the state a handler of hv.event reads; the code after the  *)
(* emit runs when the handler has returned.                                *)
(***************************************************************************)
NoEvent == [name |-> "none"]

\* v2BuildTree: the explicit directories, then a leaf for every file key
RECURSIVE AddDirs(_, _)
AddDirs(root, dirs) ==
    IF dirs = {} THEN root
    ELSE LET d == CHOOSE x \in dirs : TRUE
         IN AddDirs(IF Len(d) # 0 THEN ensureDirPath(root, d) ELSE root, dirs \ {d})

RECURSIVE AddFiles(_, _)
AddFiles(root, keys) ==
    IF keys = {} THEN root
    ELSE LET k == CHOOSE x \in keys : TRUE
         IN AddFiles(addOrUpdateFileLeaf(root, v2Normalize(k)), keys \ {k})

v2BuildTree(id) ==
    AddFiles(AddDirs(ensureRootTree,
                     IF V2DocOf(id) = NoDoc THEN {}
                     ELSE {v2Normalize(d) : d \in V2DocOf(id).explicitDirs}),
             DOMAIN V2FilesOf(id))

\* listTree(): the tree the facade shows for the active project
listTree ==
    IF getActiveProjectId = "" THEN ensureRootTree
    ELSE IF useV2 THEN v2BuildTree(getActiveProjectId)
    ELSE LsTreeOf(getActiveProjectId)

\* what a facade call can change of the active project: the file map and the
\* directories (explicitDirs on the v2 route, the tree snapshot on the v1 route)
FacadeIn(v2f, v2d, lsf, lst) ==
    LET id == getActiveProjectId
    IN IF useV2
       THEN [files |-> IF id \in DOMAIN v2f THEN v2f[id] ELSE EmptyMap,
             dirs |-> IF id \in DOMAIN v2d THEN v2d[id].explicitDirs ELSE {}]
       ELSE [files |-> IF id \in DOMAIN lsf
                       THEN [q \in listAllFilePaths(lsf[id]) |-> readFileRecord(lsf[id], q)]
                       ELSE EmptyMap,
             dirs |-> IF id \in DOMAIN lst THEN lst[id] ELSE ensureRootTree]

\* hv when no call is in progress: the last call, the events it emitted,
\* whether it changed the files or the directories (before then holds what it
\* left of them), whether it started the
\* only unsettled background writes, and whether one of them has rejected
HvIdle(op, n, before, after, wrote) ==
    [pc |-> "idle", op |-> op, event |-> NoEvent, todo |-> << >>, kind |-> "none",
     src |-> EmptyStr, dst |-> EmptyStr, content |-> EmptyStr, n |-> n,
     changed |-> before # after, before |-> after, wrote |-> wrote,
     rejected |-> FALSE]

\* hv while a handler of events[1] runs; the emits of todo come after it
HvHandler(op, kind, event, todo, src, dst, content, n, before, wrote) ==
    [pc |-> "handler", op |-> op, event |-> event, todo |-> todo, kind |-> kind,
     src |-> src, dst |-> dst, content |-> content, n |-> n, changed |-> FALSE,
     before |-> before, wrote |-> wrote, rejected |-> FALSE]

\* a call whose stores are written before its first emit: the events are
\* delivered one by one over the state the call left
Deliver(op, events, content) ==
    LET before == FacadeIn(v2Files, v2Docs, lsFiles, lsTree)
        wrote == bgPending' /\ ~bgPending
    IN hv' = IF events = << >>
             THEN HvIdle(op, 0, before, FacadeIn(v2Files', v2Docs', lsFiles', lsTree'),
                         wrote)
             ELSE HvHandler(op, "events", events[1], Tail(events), EmptyStr, EmptyStr,
                            content, 1, before, wrote)

\* the event writeFile emits, if it gets that far
WriteFileEvents(path) ==
    LET id == getActiveProjectId
        p == Normalize(path)
    IN IF id = "" \/ (~useV2 /\ encodePath(p) = URIError) THEN << >>
       ELSE IF p \in DOMAIN FilesOf(id) THEN <<Ev("file:updated", id, p)>>
       ELSE <<Ev("file:created", id, p)>>

ViewWriteFile(path, content) ==
    /\ hv.pc = "idle"
    /\ WriteFile(path, content)
    /\ Deliver("writeFile", WriteFileEvents(path), content)

\* the event createFolder emits: one on the v2 route for a new directory
CreateFolderEvents(path) ==
    LET id == getActiveProjectId
        p == v2Normalize(path)
    IN IF useV2 /\ id # "" /\ V2DocOf(id) # NoDoc /\ p \notin V2DocOf(id).explicitDirs
       THEN <<Ev("file:created", id, p)>>
       ELSE << >>

ViewCreateFolder(path) ==
    /\ hv.pc = "idle"
    /\ CreateFolder(path)
    /\ Deliver("createFolder", CreateFolderEvents(path), EmptyStr)

ViewClear ==
    /\ hv.pc = "idle"
    /\ Clear
    /\ Deliver("clear", << >>, EmptyStr)

\* deleted / deletedPaths of deletePath
DeletedPaths(path) ==
    LET id == getActiveProjectId
        p == Normalize(path)
    IN IF id = "" THEN {}
       ELSE IF useV2
       THEN IF p \in DOMAIN V2FilesOf(id) THEN {p}
            ELSE {k \in DOMAIN V2FilesOf(id) : AtOrUnder(k, p)}
       ELSE IF v1IsDirectoryPath(id, p)
            THEN {k \in listAllFilePaths(LsRecsOf(id)) : AtOrUnder(k, p)}
            ELSE {p}

ViewDeletePath(path) ==
    /\ hv.pc = "idle"
    /\ DeletePath(path)
    /\ \E order \in Orders(DeletedPaths(path)) :
         Deliver("deletePath", DeletedEvents(getActiveProjectId, order), EmptyStr)

\* the file:moved events of the v2 renamePath, in the order of its moves
V2MovedEvents(from, to, order) ==
    LET id == getActiveProjectId
        src == v2Normalize(from)
        dst == v2Normalize(to)
    IN [i \in 1..Len(order) |->
          EvMoved(id, order[i], IF order[i] = src THEN dst
                                ELSE v2Normalize(MovedPath(order[i], src, dst)))]

\* the paths the v2 renamePath moves
V2Affected(from, to) ==
    LET id == getActiveProjectId
        src == v2Normalize(from)
    IN IF id = "" \/ src = v2Normalize(to) THEN {}
       ELSE IF src \in DOMAIN V2FilesOf(id) THEN {src}
       ELSE {k \in DOMAIN V2FilesOf(id) : AtOrUnder(k, src)}

\* renamePath, v2 route: every move is in the cache before the first emit
ViewRenameV2(from, to) ==
    /\ hv.pc = "idle"
    /\ useV2
    /\ RenamePath(from, to)
    /\ \E order \in ByLengthDesc(V2Affected(from, to)) :
         Deliver("renamePath", V2MovedEvents(from, to, order), EmptyStr)

\* the paths of todo from the first that still has a record
RECURSIVE SkipMissing(_, _)
SkipMissing(recs, todo) ==
    IF todo = << >> THEN todo
    ELSE IF readFileRecord(recs, Head(todo)) # Null THEN todo
    ELSE SkipMissing(recs, Tail(todo))

V1Frame ==
    UNCHANGED <<useV2, lsIndex, lsActive, v2Index, v2Docs, v2Files,
                v2ActiveProjectId, bgPending, bgFailed, usedIds, ensuring>>

\* renamePath, v1 route, from its loop on: the next path with a record is
\* written under its new name, deleted under the old one and file:moved is
\* emitted; when no path is left the tree snapshot is renamed and saved
V1RenameStep(todo, src, dst, n, before) ==
    LET id == getActiveProjectId
        recs == LsRecsOf(id)
        left == SkipMissing(recs, todo)
    IN IF left = << >>
       THEN LET tree == renamePathInTree(LsTreeOf(id), src, dst)
            IN /\ lsTree' = Put(lsTree, id, tree)
               /\ \A q \in TreeFilePaths(tree) : Len(q) <= MaxPathLen
               /\ call' = Call("renamePath", EmptyStr, EmptyStr, "void", "none", n)
               /\ UNCHANGED <<lsFiles, pendingTreeChanged>>
               /\ V1Frame
               /\ hv' = HvIdle("renamePath", n, before,
                               FacadeIn(v2Files', v2Docs', lsFiles', lsTree'), FALSE)
       ELSE LET oldPath == Head(left)
                newPath == MovedPath(oldPath, src, dst)
                moved == deleteFileRecord(
                             writeFileRecord(recs, newPath, readFileRecord(recs, oldPath)),
                             oldPath)
            IN /\ lsFiles' = Put(lsFiles, id, moved)
               /\ \A q \in listAllFilePaths(moved) : Len(q) <= MaxPathLen
               /\ pendingTreeChanged' = EmitAll(pendingTreeChanged,
                                                <<EvMoved(id, oldPath, newPath)>>, 1)
               /\ hv' = HvHandler("renamePath", "v1rename",
                                  EvMoved(id, oldPath, newPath), Tail(left), src, dst,
                                  EmptyStr, n + 1, before, FALSE)
               /\ UNCHANGED <<lsTree, call>>
               /\ V1Frame

ViewRenameV1(from, to) ==
    LET id == getActiveProjectId
        src == normalizePath(from)
        dst == normalizePath(to)
        before == FacadeIn(v2Files, v2Docs, lsFiles, lsTree)
    IN /\ hv.pc = "idle"
       /\ ~useV2
       /\ id # ""
       /\ src # dst
       /\ IF v1IsDirectoryPath(id, src)
          THEN \E order \in ByLengthDesc({k \in listAllFilePaths(LsRecsOf(id)) :
                                            AtOrUnder(k, src)}) :
                 V1RenameStep(order, src, dst, 0, before)
          ELSE V1RenameStep(<<src>>, src, dst, 0, before)

\* the handler returns into emit, and emit into the facade call
ViewHandlerReturns ==
    /\ hv.pc = "handler"
    /\ IF hv.kind = "v1rename"
       THEN V1RenameStep(hv.todo, hv.src, hv.dst, hv.n, hv.before)
       ELSE /\ hv' = IF hv.todo = << >>
                     THEN HvIdle(hv.op, hv.n, hv.before,
                                 FacadeIn(v2Files, v2Docs, lsFiles, lsTree), hv.wrote)
                     ELSE HvHandler(hv.op, "events", Head(hv.todo), Tail(hv.todo),
                                    EmptyStr, EmptyStr, hv.content, hv.n + 1, hv.before,
                                    hv.wrote)
            /\ UNCHANGED fsVars

\* a store write handed to fireAndForget settles once the call that started
\* it is over: it resolves, or it rejects and the catch of fireAndForget logs
ViewBgSettles(rejects) ==
    /\ hv.pc = "idle"
    /\ bgPending
    /\ bgPending' \in BOOLEAN
    /\ bgFailed' = (bgFailed \/ rejects)
    /\ hv' = [hv EXCEPT !.rejected = @ \/ (rejects /\ hv.wrote),
                        !.wrote = @ /\ bgPending']
    /\ UNCHANGED <<useV2, call, pendingTreeChanged, lsIndex, lsActive, lsTree,
                   lsFiles, v2Index, v2Docs, v2Files, v2ActiveProjectId, usedIds,
                   ensuring>>

InitView ==
    /\ FsBooted
    /\ hv = HvIdle("none", 0, [none |-> TRUE], [none |-> TRUE], FALSE)
    /\ SubsIdle /\ BootIdle /\ VfsIdle /\ ParkedIdle /\ IdbIdle
    /\ NormIdle /\ BusIdle /\ ChatIdle /\ MigIdle

\* the paths given to the calls: a file, a file under a directory of the same
\* name as another file, and the directory
ViewPaths == { <<A>>, <<A, SLASH, B>>, <<A, B>> }

NextView ==
    \/ \E path \in ViewPaths : ViewWriteFile(path, <<"h">>)
    \/ \E path \in FolderPaths : ViewCreateFolder(path)
    \/ \E path \in ViewPaths : ViewDeletePath(path)
    \/ ViewClear
    \/ \E from, to \in ViewPaths : ViewRenameV2(from, to)
    \/ \E from, to \in ViewPaths : ViewRenameV1(from, to)
    \/ ViewHandlerReturns
    \/ \E rejects \in BOOLEAN : ViewBgSettles(rejects)

SpecView ==
    InitView /\ [][NextView /\ UNCHANGED <<normVars, busVars, chatVars, migVars,
                                            subs, boot, vfs, parked, idb>>]_vars

\* the paths of the file leaves listTree shows
ListedPaths == TreeFilePaths(listTree)

\* the state reflects one event: the path written holds the content, the path
\* deleted or moved away reads null, the path moved to reads a content, and the
\* tree lists exactly the paths that read a content
Reflects(e, content) ==
    IF e.name \in {"file:created", "file:updated"}
    THEN readFile(e.path) = content /\ e.path \in ListedPaths
    ELSE IF e.name = "file:deleted"
    THEN readFile(e.path) = Null /\ e.path \notin ListedPaths
    ELSE /\ readFile(e.to) # Null /\ e.to \in ListedPaths
         /\ readFile(e.from) = Null /\ e.from \notin ListedPaths

\* C12: while a handler of a file event of writeFile, deletePath or renamePath
\* runs, the facade reflects the event delivered and the rest of the operation:
\* every event the call still has to emit is reflected too, and no file of a
\* directory rename is still waiting to be moved
C12_EventAfterState ==
    (hv.pc = "handler" /\ hv.op \in {"writeFile", "deletePath", "renamePath"})
    => /\ Reflects(hv.event, hv.content)
       /\ hv.kind = "events"
          => \A i \in 1..Len(hv.todo) : Reflects(hv.todo[i], hv.content)
       /\ hv.kind = "v1rename"
          => SkipMissing(LsRecsOf(getActiveProjectId), hv.todo) = << >>

\* C13: a call of writeFile, createFolder, deletePath, renamePath or clear that
\* changed the file map or the directories of the active project has emitted,
\* before it returned, at least one event
C13_ChangeEmits ==
    (hv.pc = "idle" /\ hv.op # "none" /\ hv.changed) => hv.n >= 1

\* C17: when a background write of the last call has rejected, that call has
\* returned normally, the cache still holds what it changed, it has emitted an
\* event if it changed anything, and the rejection was caught
C17_RejectionIsolated ==
    (hv.pc = "idle" /\ hv.rejected)
    => /\ call.ret # "throws"
       /\ hv.before = FacadeIn(v2Files, v2Docs, lsFiles, lsTree)
       /\ hv.changed => hv.n >= 1
       /\ bgFailed

(***************************************************************************)
(* SpecSubs: the listener set of one file event of project p1, and emit    *)
(* with handlers that subscribe, unsubscribe, throw and emit again.  A     *)
(* handler does one thing and returns; emit calls are frames of a stack.   *)
(***************************************************************************)
\* once() calls, emits in progress at once and emits in a run
MaxOnce == 1
MaxDepth == 2
MaxEmits == 3

HandlerFns == {"h1", "h2"}

\* an element of the listener set: a handler given to on (reg = 0), or the
\* wrapper the reg-th call of once made around it
Listener(fn, reg) == [fn |-> fn, reg |-> reg]
NoListener == [fn |-> "none", reg |-> 0]

SeqRange(s) == {s[i] : i \in 1..Len(s)}

\* set.add(handler): a Set keeps insertion order and holds an element once
on(listeners, l) ==
    IF l \in SeqRange(listeners) THEN listeners ELSE Append(listeners, l)

\* set.delete(handler)
off(listeners, l) == SelectSeq(listeners, LAMBDA x : x # l)

\* once: a new wrapper is subscribed
once(listeners, fn, reg) == on(listeners, Listener(fn, reg))

\* a call of emit in progress: the snapshot, the index of the next element,
\* and what happened so far (invoked, added and removed are history)
Frame(snap) ==
    [snap |-> snap, i |-> 1, invoked |-> << >>, added |-> {}, removed |-> {},
     threw |-> 0, firstThrow |-> 0, cur |-> NoListener, ret |-> "returns"]

NoEmit == [done |-> FALSE]

\* an emit that iterates the live set: it visits what was added meanwhile and
\* skips what was deleted
NextHandlerLive(frame, listeners) ==
    LET left == SelectSeq(listeners, LAMBDA x : x \notin SeqRange(frame.invoked))
    IN IF frame.ret = "throws" \/ left = << >> THEN NoListener ELSE left[1]

\* Array.from(set.values()).forEach: the next element of the snapshot
NextHandler(frame, listeners) ==
    IF frame.ret = "throws" \/ frame.i > Len(frame.snap) THEN NoListener
    ELSE frame.snap[frame.i]

\* a forEach without the try/catch: the exception ends the emit
AfterThrowUncaught(frame) ==
    [frame EXCEPT !.threw = @ + 1, !.ret = "throws",
                  !.firstThrow = IF @ = 0 THEN Len(frame.invoked) ELSE @]

\* catch (e) { console.error(...) }: the loop goes on
AfterThrow(frame) ==
    [frame EXCEPT !.threw = @ + 1,
                  !.firstThrow = IF @ = 0 THEN Len(frame.invoked) ELSE @]

MarkAdded(stack, l) ==
    [k \in DOMAIN stack |->
       [stack[k] EXCEPT !.added = IF l \in SeqRange(stack[k].snap) THEN @ ELSE @ \cup {l}]]

MarkRemoved(stack, l) ==
    [k \in DOMAIN stack |->
       [stack[k] EXCEPT !.removed = IF l \in SeqRange(stack[k].invoked) THEN @
                                    ELSE @ \cup {l}]]

\* the record of an emit that returned
Emitted(frame, pending) ==
    [done |-> TRUE, snap |-> frame.snap, invoked |-> frame.invoked,
     added |-> frame.added, removed |-> frame.removed, threw |-> frame.threw,
     firstThrow |-> frame.firstThrow,
     ret |-> frame.ret, pending |-> pending]

\* the wrapper of once: finally { this.off(eventName, wrapper) }
Finally(s, l) ==
    IF l.reg = 0 THEN s
    ELSE [s EXCEPT !.listeners = off(@, l), !.stack = MarkRemoved(@, l)]

\* emit up to its forEach: tree:changed is scheduled, the snapshot is taken
EmitStart(s) ==
    LET pending == scheduleTreeChanged([pending |-> s.pending, timers |-> EmptyMap],
                                       P1).pending
        s1 == [s EXCEPT !.pending = pending, !.emits = @ + 1]
    IN IF Len(s.listeners) = 0
       THEN [s1 EXCEPT !.last = Emitted(Frame(<< >>), pending)]
       ELSE [s1 EXCEPT !.stack = Append(@, Frame(s.listeners))]

\* the body of handler l
Body(s, l, act, arg) ==
    CASE act = "on" -> [s EXCEPT !.listeners = on(@, arg),
                                 !.stack = MarkAdded(@, arg)]
      [] act = "once" -> [s EXCEPT !.listeners = once(@, arg.fn, s.nOnce + 1),
                                   !.stack = MarkAdded(@, Listener(arg.fn, s.nOnce + 1)),
                                   !.nOnce = @ + 1]
      [] act = "off" -> [s EXCEPT !.listeners = off(@, arg),
                                  !.stack = MarkRemoved(@, arg)]
      [] OTHER -> s

\* forEach calls the next handler of the emit on top of the stack
HandlerRuns(act, arg) ==
    LET d == Len(subs.stack)
        top == subs.stack[d]
        l == NextHandler(top, subs.listeners)
        called == [subs EXCEPT !.stack[d].i = @ + 1,
                               !.stack[d].invoked = Append(@, l),
                               !.onceCalls = IF l.reg = 0 THEN @
                                             ELSE [@ EXCEPT ![l.reg] = @ + 1]]
    IN /\ d > 0
       /\ top.cur = NoListener
       /\ l # NoListener
       /\ act \in {"on", "once"} => arg.fn \in HandlerFns /\ arg.reg = 0
       /\ act = "once" => subs.nOnce < MaxOnce
       /\ act = "off" => arg \in SeqRange(subs.listeners)
       /\ act \in {"return", "throw", "emit"} => arg = NoListener
       /\ act = "emit" => d < MaxDepth /\ subs.emits < MaxEmits
       /\ subs' =
            IF act = "emit" /\ Len(called.listeners) # 0
            THEN EmitStart([called EXCEPT !.stack[d].cur = l])
            ELSE LET ran == IF act = "emit" THEN EmitStart(called)
                            ELSE Body(called, l, act, arg)
                     out == Finally(ran, l)
                 IN IF act = "throw"
                    THEN [out EXCEPT !.stack[d] = AfterThrow(@)]
                    ELSE out

\* the forEach of the emit on top is over: emit returns, into the handler
\* that called it if there is one
EmitReturns ==
    LET d == Len(subs.stack)
        top == subs.stack[d]
        popped == [subs EXCEPT !.stack = SubSeq(@, 1, d - 1),
                               !.last = Emitted(top, subs.pending)]
    IN /\ d > 0
       /\ top.cur = NoListener
       /\ NextHandler(top, subs.listeners) = NoListener
       /\ subs' = IF d = 1 THEN popped
                  ELSE Finally([popped EXCEPT !.stack[d - 1].cur = NoListener],
                               subs.stack[d - 1].cur)

SubsOn(fn) ==
    /\ subs.stack = << >>
    /\ subs' = [subs EXCEPT !.listeners = on(@, Listener(fn, 0))]

SubsOnce(fn) ==
    /\ subs.stack = << >>
    /\ subs.nOnce < MaxOnce
    /\ subs' = [subs EXCEPT !.listeners = once(@, fn, subs.nOnce + 1),
                            !.nOnce = @ + 1]

SubsOff(l) ==
    /\ subs.stack = << >>
    /\ l \in SeqRange(subs.listeners)
    /\ subs' = [subs EXCEPT !.listeners = off(@, l)]

SubsEmit ==
    /\ subs.stack = << >>
    /\ subs.emits < MaxEmits
    /\ subs' = EmitStart(subs)

\* the 50 ms timer fires between two calls
SubsTimer ==
    /\ subs.stack = << >>
    /\ P1 \in subs.pending
    /\ subs' = [subs EXCEPT !.pending = @ \ {P1}]

HandlerActs == {"return", "throw", "emit", "on", "once", "off"}

\* what a handler passes to on, once and off
HandlerArgs ==
    {NoListener} \cup {Listener(fn, reg) : fn \in HandlerFns, reg \in 0..MaxOnce}

InitSubs ==
    /\ subs = [listeners |-> << >>, stack |-> << >>, last |-> NoEmit,
               onceCalls |-> [k \in 1..MaxOnce |-> 0], nOnce |-> 0, emits |-> 0,
               pending |-> {}]
    /\ ViewIdle /\ BootIdle /\ VfsIdle /\ ParkedIdle /\ IdbIdle
    /\ FsIdle /\ NormIdle /\ BusIdle /\ ChatIdle /\ MigIdle

NextSubs ==
    \/ \E fn \in HandlerFns : SubsOn(fn)
    \/ \E fn \in HandlerFns : SubsOnce(fn)
    \/ \E l \in SeqRange(subs.listeners) : SubsOff(l)
    \/ SubsEmit
    \/ SubsTimer
    \/ \E act \in HandlerActs, arg \in HandlerArgs : HandlerRuns(act, arg)
    \/ EmitReturns

SpecSubs ==
    InitSubs /\ [][NextSubs /\ UNCHANGED <<normVars, fsVars, busVars, chatVars,
                                            migVars, hv, boot, vfs, parked, idb>>]_vars

\* C14: an emit that returned has called the elements of its snapshot, each
\* once and in order, whatever was unsubscribed meanwhile, and has called
\* nothing that was subscribed only after it started
C14_SnapshotDelivery ==
    subs.last.done
    => /\ subs.last.invoked = subs.last.snap
       /\ \A l \in subs.last.added : l \notin SeqRange(subs.last.invoked)

\* an emit returned in which a listener was unsubscribed before its turn and
\* another one was subscribed
C14_Witness ==
    /\ subs.last.done
    /\ \E l \in subs.last.removed : l \in SeqRange(subs.last.snap)
    /\ subs.last.added # {}

\* C15: an emit in which a handler threw has still called every element of its
\* snapshot, has returned normally, and has left tree:changed scheduled
C15_ThrowIsolated ==
    (subs.last.done /\ subs.last.threw > 0)
    => /\ SeqRange(subs.last.snap) \subseteq SeqRange(subs.last.invoked)
       /\ subs.last.ret = "returns"
       /\ P1 \in subs.last.pending

\* an emit is over in which a handler threw and handlers were called after it
C15_Witness ==
    /\ subs.last.done
    /\ subs.last.firstThrow > 0
    /\ subs.last.firstThrow < Len(subs.last.invoked)
    /\ subs.stack = << >>

\* C16: the handler given to a call of once is called at most once
C16_OnceAtMostOnce ==
    \A k \in 1..MaxOnce : subs.onceCalls[k] <= 1

(***************************************************************************)
(* SpecBoot: the startup bootstrap of either route over a stored project   *)
(* index and a stored active id; the v2 bootstrap stops at each await.     *)
(***************************************************************************)
\* the id nanoid gives the default project: one no stored project has
BootNewId == ProjectIds[4]

\* the stored project indexes: up to two projects, in either order
StoredIndexes ==
    { << >>, <<Entry("p1", "n")>>, <<Entry("p2", "n")>>,
      <<Entry("p1", "n"), Entry("p2", "n")>>, <<Entry("p2", "n"), Entry("p1", "n")>> }

\* the stored active ids: none, a project that may be indexed, a stale id
StoredActives == {"", "p1", "p2", "p3"}

IdsOf(index) == {index[i].id : i \in 1..Len(index)}

\* !active || !index.find((e) => e.id === active)
NoValidActive(active, index) == active = "" \/ active \notin IdsOf(index)

BootFrame == UNCHANGED <<useV2, call, pendingTreeChanged, bgFailed>>

\* bootstrapV1: a stored active id that is indexed is kept; otherwise  a
\* project 'My Project' with the starter files is created and made active
bootstrapV1 ==
    /\ ~useV2
    /\ boot.pc = "start"
    /\ boot' = [boot EXCEPT !.pc = "done"]
    /\ IF NoValidActive(lsActive, lsIndex)
       THEN /\ lsIndex' = Append(lsIndex, Entry(BootNewId, "My Project"))
            /\ lsFiles' = Put(lsFiles, BootNewId, StarterRecords(3))
            /\ lsTree' = Put(lsTree, BootNewId, StarterTree(3))
            /\ lsActive' = BootNewId
            /\ usedIds' = usedIds \cup {BootNewId}
       ELSE UNCHANGED <<lsIndex, lsFiles, lsTree, lsActive, usedIds>>
    /\ UNCHANGED <<v2Index, v2Docs, v2Files, v2ActiveProjectId, bgPending, ensuring>>
    /\ BootFrame

V2BootFrame == UNCHANGED <<lsIndex, lsActive, lsTree, lsFiles>> /\ BootFrame

\* an await of bootstrapV2 rejects: the catch logs 'bootstrap failed'
BootV2Rejects ==
    /\ useV2
    /\ boot.pc \in {"index", "active", "doc", "files"}
    /\ boot' = [boot EXCEPT !.pc = "failed"]
    /\ UNCHANGED <<v2Index, v2Docs, v2Files, v2ActiveProjectId, bgPending, usedIds,
                   ensuring>>
    /\ V2BootFrame

\* bootstrapV2 up to its first await
BootV2Starts ==
    /\ useV2
    /\ boot.pc = "start"
    /\ boot' = [boot EXCEPT !.pc = "index"]
    /\ UNCHANGED <<v2Index, v2Docs, v2Files, v2ActiveProjectId, bgPending, usedIds,
                   ensuring>>
    /\ V2BootFrame

\* await storageV2.getProjectsIndex() resolves
BootV2Index ==
    /\ useV2
    /\ boot.pc = "index"
    /\ boot' = [boot EXCEPT !.pc = "active"]
    /\ v2Index' = boot.index
    /\ UNCHANGED <<v2Docs, v2Files, v2ActiveProjectId, bgPending, usedIds, ensuring>>
    /\ V2BootFrame

\* the active id bootstrapV2 settles on
BootTarget(active, index) ==
    IF ~NoValidActive(active, index) THEN active
    ELSE IF Len(index) = 0 THEN BootNewId
    ELSE index[1].id

\* await storageV2.getActiveProjectId() resolves: the stored id is kept if it
\* is indexed; otherwise v2CreateProject on an empty index, v2SetActiveProject
\* of the first project on any other
BootV2Active ==
    LET active == BootTarget(boot.active, v2Index)
        invalid == NoValidActive(boot.active, v2Index)
        creates == invalid /\ Len(v2Index) = 0
    IN /\ useV2
       /\ boot.pc = "active"
       /\ boot' = [boot EXCEPT !.pc = "doc"]
       /\ v2ActiveProjectId' = active
       /\ v2Index' = IF creates THEN Append(v2Index, Entry(BootNewId, "My Project"))
                     ELSE v2Index
       /\ v2Docs' = IF creates THEN Put(v2Docs, BootNewId, StarterDoc) ELSE v2Docs
       /\ v2Files' = IF creates THEN Put(v2Files, BootNewId, StarterMap(3)) ELSE v2Files
       /\ usedIds' = IF creates THEN usedIds \cup {BootNewId} ELSE usedIds
       /\ ensuring' = IF invalid /\ ~creates /\ active \notin DOMAIN v2Docs
                      THEN ensuring \cup {active} ELSE ensuring
       /\ bgPending' = (bgPending \/ invalid)
       /\ V2BootFrame

\* await this.v2EnsureProjectDoc(active) resolves: the doc of the cache, the
\* stored doc, or the default doc
BootV2Doc ==
    /\ useV2
    /\ boot.pc = "doc"
    /\ boot' = [boot EXCEPT !.pc = "files"]
    /\ \E doc \in {v2DefaultDoc, StarterDoc} :
         v2Docs' = IF v2ActiveProjectId \in DOMAIN v2Docs THEN v2Docs
                   ELSE Put(v2Docs, v2ActiveProjectId, doc)
    /\ UNCHANGED <<v2Index, v2Files, v2ActiveProjectId, bgPending, usedIds, ensuring>>
    /\ V2BootFrame

\* await storageV2.idbListFiles(active) resolves: the files are cached under
\* the active id of the await before, the index entry and the doc are saved
BootV2Files ==
    /\ useV2
    /\ boot.pc = "files"
    /\ boot' = [boot EXCEPT !.pc = "done"]
    /\ \E files \in {EmptyMap, StarterMap(3)} :
         v2Files' = Put(v2Files, v2ActiveProjectId, files)
    /\ bgPending' = TRUE
    /\ UNCHANGED <<v2Index, v2Docs, v2ActiveProjectId, usedIds, ensuring>>
    /\ V2BootFrame

InitBoot ==
    /\ useV2 \in BOOLEAN
    /\ boot \in [pc : {"start"}, index : StoredIndexes, active : StoredActives]
    /\ call = NoCall /\ pendingTreeChanged = {}
    /\ lsIndex = IF useV2 THEN << >> ELSE boot.index
    /\ lsActive = IF useV2 THEN "" ELSE boot.active
    /\ lsTree = IF useV2 THEN EmptyMap
                ELSE [id \in IdsOf(boot.index) |-> ensureRootTree]
    /\ lsFiles = EmptyMap
    /\ v2Index = << >> /\ v2Docs = EmptyMap /\ v2Files = EmptyMap
    /\ v2ActiveProjectId = "" /\ bgPending = FALSE /\ bgFailed = FALSE
    /\ usedIds = IdsOf(boot.index) /\ ensuring = {}
    /\ ViewIdle /\ SubsIdle /\ VfsIdle /\ ParkedIdle /\ IdbIdle
    /\ NormIdle /\ BusIdle /\ ChatIdle /\ MigIdle

NextBoot ==
    \/ bootstrapV1
    \/ BootV2Starts
    \/ BootV2Index
    \/ BootV2Active
    \/ BootV2Doc
    \/ BootV2Files
    \/ BootV2Rejects
    \/ \E id \in IdArgs : EnsureDocSettles(id) /\ UNCHANGED boot
    \/ BgComplete /\ UNCHANGED <<boot, ensuring>>
    \/ BgFail /\ UNCHANGED <<boot, ensuring>>

SpecBoot ==
    InitBoot /\ [][NextBoot /\ UNCHANGED <<normVars, busVars, chatVars, migVars,
                                            hv, subs, vfs, parked, idb>>]_vars

\* C18: when the bootstrap is over the active id names a project of the index:
\* the stored id if the stored index holds it, otherwise the first project of
\* the stored index and no project is created, and on an empty stored index
\* the one default project that was created
C18_BootActive ==
    boot.pc = "done"
    => LET index == IndexIn(v2Index, lsIndex)
           active == getActiveProjectId
       IN /\ active \in IdsOf(index)
          /\ ~NoValidActive(boot.active, boot.index)
             => active = boot.active /\ index = boot.index
          /\ (NoValidActive(boot.active, boot.index) /\ Len(boot.index) # 0)
             => active = boot.index[1].id /\ index = boot.index
          /\ Len(boot.index) = 0
             => index = <<Entry(active, "My Project")>>

(***************************************************************************)
(* SpecRoute: the facade from its construction on. The constructor starts  *)
(* isV2Initialized() and returns; until that promise settles useV2 is      *)
(* false and the facade answers calls on the v1 route. boot.flag is what   *)
(* the check resolves to; the v1 stores hold the stored index and active   *)
(* id (the migration leaves them in place).                                *)
(***************************************************************************)
\* writeFile called while the version check is pending
EarlyWriteFile(path, content) ==
    /\ boot.pc = "check"
    /\ WriteFile(path, content)
    /\ UNCHANGED boot

\* isV2Initialized() resolves: useV2 is set and the bootstrap of that route
\* starts
CheckResolves ==
    /\ boot.pc = "check"
    /\ useV2' = boot.flag
    /\ boot' = [boot EXCEPT !.pc = "start"]
    /\ UNCHANGED <<call, pendingTreeChanged, lsIndex, lsActive, lsTree, lsFiles,
                   v2Index, v2Docs, v2Files, v2ActiveProjectId, bgPending,
                   bgFailed, usedIds, ensuring>>

InitRoute ==
    /\ useV2 = FALSE
    /\ boot \in [pc : {"check"}, index : StoredIndexes, active : StoredActives,
                  flag : BOOLEAN]
    /\ call = NoCall /\ pendingTreeChanged = {}
    /\ lsIndex = boot.index
    /\ lsActive = boot.active
    /\ lsTree = [id \in IdsOf(boot.index) |-> ensureRootTree]
    /\ lsFiles = EmptyMap
    /\ v2Index = << >> /\ v2Docs = EmptyMap /\ v2Files = EmptyMap
    /\ v2ActiveProjectId = "" /\ bgPending = FALSE /\ bgFailed = FALSE
    /\ usedIds = IdsOf(boot.index) /\ ensuring = {}
    /\ ViewIdle /\ SubsIdle /\ VfsIdle /\ ParkedIdle /\ IdbIdle
    /\ NormIdle /\ BusIdle /\ ChatIdle /\ MigIdle

NextRoute ==
    \/ \E path \in FolderPaths, content \in Contents : EarlyWriteFile(path, content)
    \/ CheckResolves
    \/ NextBoot

SpecRoute ==
    InitRoute /\ [][NextRoute /\ UNCHANGED <<normVars, busVars, chatVars, migVars,
                                              hv, subs, vfs, parked, idb>>]_vars

\* C29: a writeFile call made before the version check resolves is not lost:
\* once the check has resolved, to either route, and the bootstrap is over,
\* readFile returns the content written
C29_EarlyWriteKept ==
    (boot.pc = "done" /\ call.op = "writeFile") => readFile(call.path) = call.content

(***************************************************************************)
(* SpecStore: the v2 route with its indexed store. idb.files, idb.docs and *)
(* idb.chat are the object stores 'files', 'projects' and 'chatMeta' with  *)
(* 'chatSegments'; idb.queue holds the operations handed to fireAndForget  *)
(* that have not settled. openDb() returns one cached promise, so the      *)
(* transactions on one object store are created, and run, in the order of  *)
(* the calls; operations on different stores settle in any order. No       *)
(* operation rejects. The session booted with the projects p1 (active,     *)
(* cached) and p2 (stored, not cached).                                    *)
(***************************************************************************)
P2 == "p2"

\* how many unsettled operations the model lets pile up before a call
MaxPending == 2

\* the paths of the calls
StorePaths == { <<A>>, <<C>> }

Op(op, id, path, content) ==
    [op |-> op, id |-> id, path |-> path, content |-> content, todo |-> << >>]

\* the object store an operation opens its transaction on
StoreOf(o) ==
    IF o.op \in {"putFile", "deleteFile", "listFiles", "chainDeleteFile"} THEN "files"
    ELSE "projects"

IdbFilesOf(id) == IF id \in DOMAIN idb.files THEN idb.files[id] ELSE EmptyMap

\* fireAndForget of the operations ops, in this order
Enqueue(ops) == idb' = [idb EXCEPT !.queue = @ \o ops]

\* idbPutProject(doc) when the cache holds a doc of the project
PutDocOps(id) == IF id \in DOMAIN v2Docs THEN <<Op("putProject", id, EmptyStr, EmptyStr)>> ELSE << >>

CanCall == useV2 /\ Len(idb.queue) < MaxPending

StoreWriteFile(path, content) ==
    /\ CanCall
    /\ WriteFile(path, content)
    /\ Enqueue(IF v2ActiveProjectId = "" THEN << >>
               ELSE PutDocOps(v2ActiveProjectId)
                    \o <<Op("putFile", v2ActiveProjectId, v2Normalize(path), content)>>)

StoreDeletePath(path) ==
    LET id == v2ActiveProjectId
        p == v2Normalize(path)
        files == V2FilesOf(id)
        deleted == IF p \in DOMAIN files THEN {p}
                   ELSE {k \in DOMAIN files : AtOrUnder(k, p)}
        order == CHOOSE o \in Orders(deleted) : TRUE
    IN /\ CanCall
       /\ DeletePath(path)
       /\ Enqueue(IF id = "" THEN << >>
                  ELSE [i \in 1..Len(order) |-> Op("deleteFile", id, order[i], EmptyStr)]
                       \o PutDocOps(id))

\* v2SetActiveProject: v2EnsureProjectDoc(id).then(idbPutProject)
StoreSetActiveProject(id) ==
    /\ CanCall
    /\ SetActiveProject(id)
    /\ Enqueue(<<Op(IF id \in DOMAIN v2Docs THEN "putProject" ELSE "getProject",
                    id, EmptyStr, EmptyStr)>>)

\* deleteProject: the async function starts with idbListFiles(id)
StoreDeleteProject(id) ==
    /\ CanCall
    /\ DeleteProject(id)
    /\ Enqueue(<<Op("listFiles", id, EmptyStr, EmptyStr)>>)

\* what the settling of an operation leaves in the object stores, and the
\* operation its continuation issues next
Settled(o) ==
    LET files == IdbFilesOf(o.id)
        chain(todo) ==
            IF Len(todo) = 0 THEN <<Op("deleteProject", o.id, EmptyStr, EmptyStr)>>
            ELSE <<[Op("chainDeleteFile", o.id, todo[1], EmptyStr)
                      EXCEPT !.todo = Tail(todo)]>>
    IN CASE o.op = "putFile" ->
              [files |-> Put(idb.files, o.id, Put(files, o.path, o.content)),
               docs |-> idb.docs, next |-> << >>]
         [] o.op = "deleteFile" ->
              [files |-> Put(idb.files, o.id, Del(files, o.path)),
               docs |-> idb.docs, next |-> << >>]
         [] o.op = "listFiles" ->
              [files |-> idb.files, docs |-> idb.docs,
               next |-> chain(CHOOSE s \in Orders(DOMAIN files) : TRUE)]
         [] o.op = "chainDeleteFile" ->
              [files |-> Put(idb.files, o.id, Del(files, o.path)),
               docs |-> idb.docs, next |-> chain(o.todo)]
         [] o.op = "putProject" ->
              [files |-> idb.files, docs |-> idb.docs \cup {o.id}, next |-> << >>]
         [] o.op = "deleteProject" ->
              [files |-> idb.files, docs |-> idb.docs \ {o.id}, next |-> << >>]
         [] OTHER ->
              [files |-> idb.files, docs |-> idb.docs,
               next |-> <<Op("putProject", o.id, EmptyStr, EmptyStr)>>]

\* the first unsettled operation of an object store settles; the
\* idbGetProject of v2EnsureProjectDoc puts the doc in the cache
StoreSettles ==
    \E i \in 1..Len(idb.queue) :
       LET o == idb.queue[i]
           r == Settled(o)
       IN /\ \A j \in 1..(i - 1) : StoreOf(idb.queue[j]) # StoreOf(o)
          /\ idb' = [idb EXCEPT !.files = r.files, !.docs = r.docs,
                                !.queue = RemoveAt(@, i) \o r.next]
          /\ IF o.op = "getProject"
             THEN /\ v2Docs' = IF o.id \in DOMAIN v2Docs THEN v2Docs
                               ELSE Put(v2Docs, o.id, v2DefaultDoc)
                  /\ ensuring' = ensuring \ {o.id}
             ELSE UNCHANGED <<v2Docs, ensuring>>
          /\ UNCHANGED <<useV2, call, pendingTreeChanged, lsIndex, lsActive, lsTree,
                         lsFiles, v2Index, v2Files, v2ActiveProjectId, bgPending,
                         bgFailed, usedIds>>

InitStore ==
    /\ useV2 = TRUE
    /\ call = NoCall /\ pendingTreeChanged = {}
    /\ lsIndex = << >> /\ lsActive = "" /\ lsTree = EmptyMap /\ lsFiles = EmptyMap
    /\ v2Index = <<Entry(P1, "n"), Entry(P2, "n")>>
    /\ v2Docs = Put(EmptyMap, P1, v2DefaultDoc)
    /\ v2Files = Put(EmptyMap, P1, EmptyMap)
    /\ v2ActiveProjectId = P1
    /\ bgPending = FALSE /\ bgFailed = FALSE
    /\ usedIds = {P1, P2} /\ ensuring = {}
    /\ \E chat \in SUBSET {P1} :
         idb = [files |-> Put(Put(EmptyMap, P1, EmptyMap), P2,
                              Put(EmptyMap, <<C>>, <<"h">>)),
                docs |-> {P1, P2}, chat |-> chat, queue |-> << >>]
    /\ ViewIdle /\ SubsIdle /\ BootIdle /\ VfsIdle /\ ParkedIdle
    /\ NormIdle /\ BusIdle /\ ChatIdle /\ MigIdle

NextStore ==
    \/ \E path \in StorePaths, content \in Contents : StoreWriteFile(path, content)
    \/ \E path \in StorePaths : StoreDeletePath(path)
    \/ \E id \in IdsOf(v2Index) : StoreSetActiveProject(id)
    \/ \E id \in IdsOf(v2Index) : StoreDeleteProject(id)
    \/ StoreSettles

SpecStore ==
    InitStore /\ [][NextStore /\ UNCHANGED <<normVars, busVars, chatVars, migVars,
                                              hv, subs, boot, vfs, parked>>]_vars

\* C28: on the v2 route, when the calls have stopped and every pending
\* background operation has completed, the stored file records of each
\* project are the file map the cache holds for it
C28_StoreMatchesCache ==
    Len(idb.queue) = 0 => \A id \in DOMAIN v2Files : IdbFilesOf(id) = v2Files[id]

\* C21: when a project has been deleted and every background operation has
\* completed, the store and the cache hold no doc, no file record and no chat
\* meta or segment of it, and the index does not list it
C21_DeleteProjectComplete ==
    \A id \in usedIds :
       (id \notin IdsOf(v2Index) /\ Len(idb.queue) = 0)
       => /\ id \notin idb.docs /\ IdbFilesOf(id) = EmptyMap /\ id \notin idb.chat
          /\ id \notin DOMAIN v2Docs /\ id \notin DOMAIN v2Files

(***************************************************************************)
(* SpecVfs: initializeFromStorage over a saved snapshot (or none) and the  *)
(* files the active project already holds.  The function stops at its two  *)
(* awaits; what follows the second one runs in one piece.                  *)
(***************************************************************************)
\* the seed files of __defaultSeedFiles; a name is one unit and a content a
\* short stand-in
StylesCss == <<"styles.css">>
IndexJs == <<"index.js">>
SeedPaths == <<IndexHtml, StylesCss, IndexJs>>
SeedContent == <<"s">>

\* the files and the directories of the active project as one value: the
\* cache map and the doc on the v2 route, the records and the tree on the v1
FsOf(id) ==
    IF useV2 THEN [files |-> V2FilesOf(id), dirs |-> V2DocOf(id)]
    ELSE [files |-> LsRecsOf(id), dirs |-> LsTreeOf(id)]

\* what writeFile does to the files and the directories; on the v1 route a
\* path encodePath rejects makes it throw
writeFileCore(st, path, content) ==
    IF useV2
    THEN LET files == Put(st.files, v2Normalize(path), content)
         IN [files |-> files,
             dirs |-> IF st.dirs = NoDoc THEN NoDoc ELSE WithStats(st.dirs, files)]
    ELSE LET p == normalizePath(path)
         IN IF encodePath(p) = URIError THEN st
            ELSE [files |-> writeFileRecord(st.files, p, content),
                  dirs |-> addOrUpdateFileLeaf(st.dirs, p)]

\* what deletePath does to the files and the directories
deletePathCore(st, path) ==
    IF useV2
    THEN LET p == v2Normalize(path)
             gone == IF p \in DOMAIN st.files THEN {p}
                     ELSE {k \in DOMAIN st.files : AtOrUnder(k, p)}
             doc1 == IF st.dirs = NoDoc \/ p \in DOMAIN st.files THEN st.dirs
                     ELSE [st.dirs EXCEPT !.explicitDirs = {d \in @ : v2Normalize(d) # p}]
             left == DelAll(st.files, gone)
         IN [files |-> left,
             dirs |-> IF doc1 = NoDoc THEN NoDoc ELSE WithStats(doc1, left)]
    ELSE LET p == normalizePath(path)
             hit == locateNode(st.dirs, p)
             isDir == hit # NoNode /\ hit.type = "directory"
             gone == IF isDir THEN {k \in listAllFilePaths(st.files) : AtOrUnder(k, p)}
                     ELSE {p}
         IN IF ~isDir /\ encodePath(p) = URIError THEN st
            ELSE [files |-> DelRecords(st.files, gone),
                  dirs |-> removePathFromTree(st.dirs, p)]

\* getAllFiles(id) as path -> content
AllFilesOf(st) ==
    IF useV2 THEN st.files
    ELSE [q \in listAllFilePaths(st.files) |-> readFileRecord(st.files, q)]

\* for (const p of existingSet) if (!savedSet.has(p)) fileSystem.deletePath(p)
RECURSIVE DeleteEach(_, _, _)
DeleteEach(st, order, i) ==
    IF i > Len(order) THEN st
    ELSE DeleteEach(deletePathCore(st, order[i]), order, i + 1)

\* for (const p of keys) fileSystem.writeFile(p, String(filesObj[p] ?? ''))
RECURSIVE WriteEach(_, _, _, _)
WriteEach(st, order, i, filesObj) ==
    IF i > Len(order) THEN st
    ELSE WriteEach(writeFileCore(st, order[i],
                                 IF order[i] \in DOMAIN filesObj THEN filesObj[order[i]]
                                 ELSE EmptyStr),
                   order, i + 1, filesObj)

\* for (const [p, c] of Object.entries(seed)) fileSystem.writeFile(normalizePath(p), c)
RECURSIVE WriteSeeds(_, _)
WriteSeeds(st, i) ==
    IF i > Len(SeedPaths) THEN st
    ELSE WriteSeeds(writeFileCore(st, v2Normalize(SeedPaths[i]), SeedContent), i + 1)

\* a restore that prefers index.html to the saved pointer
finalActiveIndexFirst(savedActive, keys) ==
    LET ap == IF savedActive = Null \/ savedActive = EmptyStr THEN Null
              ELSE v2Normalize(savedActive)
    IN IF IndexHtml \in keys THEN IndexHtml
       ELSE IF ap # Null /\ ap \in keys THEN ap ELSE Null

\* ap && keys.includes(ap) ? ap : (keys.includes('index.html') ? 'index.html' : null)
finalActive(savedActive, keys) ==
    LET ap == IF savedActive = Null \/ savedActive = EmptyStr THEN Null
              ELSE v2Normalize(savedActive)
    IN IF ap # Null /\ ap \in keys THEN ap
       ELSE IF IndexHtml \in keys THEN IndexHtml ELSE Null

\* setActiveFilePath: path ? normalize(path) : null
PointerOf(path) == IF path = Null \/ path = EmptyStr THEN Null ELSE Normalize(path)

\* the saved snapshots: none, or a file map and an active path as
\* __vfsPersistNow writes them, their keys normalized
SavedPaths == {<<A>>, <<A, SLASH, B>>, IndexHtml}
SavedMaps ==
    {EmptyMap} \cup {Put(EmptyMap, p, <<"h">>) : p \in SavedPaths}
    \cup {Put(Put(EmptyMap, p, <<"h">>), q, <<"g">>) : p, q \in SavedPaths}
SavedActives == {Null, <<A>>, <<B>>, IndexHtml}
NoSnapshot == [persisted |-> FALSE, files |-> EmptyMap, active |-> Null]
Snapshots ==
    {NoSnapshot} \cup [persisted : {TRUE}, files : SavedMaps, active : SavedActives]

\* the files the active project holds when the function is called
ExistingMaps ==
    { EmptyMap, Put(EmptyMap, <<A>>, <<"x">>), Put(EmptyMap, <<B>>, <<"x">>),
      Put(Put(EmptyMap, <<A>>, <<"x">>), IndexHtml, <<"x">>) }

RECURSIVE RecordsOf(_, _)
RecordsOf(files, keys) ==
    IF keys = {} THEN EmptyMap
    ELSE LET k == CHOOSE x \in keys : TRUE
         IN writeFileRecord(RecordsOf(files, keys \ {k}), k, files[k])

RECURSIVE LeavesOf(_)
LeavesOf(keys) ==
    IF keys = {} THEN ensureRootTree
    ELSE LET k == CHOOSE x \in keys : TRUE
         IN addOrUpdateFileLeaf(LeavesOf(keys \ {k}), k)

VfsFrame ==
    UNCHANGED <<useV2, call, pendingTreeChanged, lsIndex, lsActive, lsTree, lsFiles,
                v2Index, v2Docs, v2Files, v2ActiveProjectId, bgPending, bgFailed,
                usedIds, ensuring>>

\* initializeFromStorage up to its first await
VfsStarts ==
    /\ vfs.pc = "start"
    /\ vfs' = [vfs EXCEPT !.pc = "files"]
    /\ VfsFrame

\* await idbKvGet('vfs:files') resolves, or rejects into the catch
VfsGetFiles(rejects) ==
    /\ vfs.pc = "files"
    /\ vfs' = [vfs EXCEPT !.pc = IF rejects THEN "failed" ELSE "active"]
    /\ VfsFrame

\* await idbKvGet('vfs:active') rejects into the catch
VfsGetActiveRejects ==
    /\ vfs.pc = "active"
    /\ vfs' = [vfs EXCEPT !.pc = "failed"]
    /\ VfsFrame

\* await idbKvGet('vfs:active') resolves and the rest of the function runs:
\* a project is made if none is active, then the saved files are restored or
\* the seed files written
VfsRestores ==
    LET filesObj == vfs.saved.files
        keys == {v2Normalize(k) : k \in DOMAIN filesObj}
        hasSaved == keys # {}
        creates == getActiveProjectId = ""
        id == IF creates THEN ProjectIds[Cardinality(usedIds) + 1] ELSE getActiveProjectId
        st0 == IF creates
               THEN [files |-> EmptyMap,
                     dirs |-> IF useV2 THEN v2DefaultDoc ELSE ensureRootTree]
               ELSE FsOf(id)
        existing == {v2Normalize(q) : q \in DOMAIN AllFilesOf(st0)}
        seeds == ~hasSaved /\ existing = {}
        pointer == IF hasSaved THEN PointerOf(finalActive(vfs.saved.active, keys))
                   ELSE PointerOf(IndexHtml)
    IN /\ vfs.pc = "active"
       /\ \E dels \in Orders(IF hasSaved THEN existing \ keys ELSE {}),
             writes \in Orders(keys) :
            LET st == IF hasSaved
                      THEN WriteEach(DeleteEach(st0, dels, 1), writes, 1, filesObj)
                      ELSE IF seeds THEN WriteSeeds(st0, 1) ELSE st0
                sets == (hasSaved \/ seeds) /\ (useV2 => st.dirs # NoDoc)
            IN /\ IF useV2
                  THEN /\ v2Files' = Put(v2Files, id, st.files)
                       /\ v2Docs' = IF st.dirs = NoDoc THEN v2Docs
                                    ELSE Put(v2Docs, id,
                                             IF sets
                                             THEN [st.dirs EXCEPT !.activeFilePath = pointer]
                                             ELSE st.dirs)
                       /\ v2Index' = IF creates THEN Append(v2Index, Entry(id, "My Project"))
                                     ELSE v2Index
                       /\ v2ActiveProjectId' = id
                       /\ bgPending' = (bgPending \/ creates \/ hasSaved \/ seeds)
                       /\ UNCHANGED <<lsIndex, lsActive, lsTree, lsFiles>>
                  ELSE /\ lsFiles' = Put(lsFiles, id, st.files)
                       /\ lsTree' = Put(lsTree, id, st.dirs)
                       /\ lsIndex' = IF creates THEN Append(lsIndex, Entry(id, "My Project"))
                                     ELSE lsIndex
                       /\ lsActive' = id
                       /\ UNCHANGED <<v2Index, v2Docs, v2Files, v2ActiveProjectId,
                                      bgPending>>
               /\ vfs' = [vfs EXCEPT !.pc = "done",
                                     !.pointer = IF ~useV2 /\ sets THEN pointer ELSE @,
                                     !.seeded = seeds,
                                     !.before = AllFilesOf(st0)]
       /\ pendingTreeChanged' = IF (hasSaved \/ seeds) THEN pendingTreeChanged \cup {id}
                                ELSE pendingTreeChanged
       /\ usedIds' = usedIds \cup {id}
       /\ call' = Call("initializeFromStorage", EmptyStr, EmptyStr, "void", "none", 0)
       /\ UNCHANGED <<useV2, bgFailed, ensuring>>

\* the session before the call: project p1 active with some files, or no
\* project at all
InitVfs ==
    /\ useV2 \in BOOLEAN
    /\ \E saved \in Snapshots, ptr \in {Null, IndexHtml} :
         vfs = [pc |-> "start", saved |-> saved, pointer |-> ptr, seeded |-> FALSE,
                before |-> EmptyMap]
    /\ \E hasProject \in BOOLEAN, files \in ExistingMaps :
         /\ ~hasProject => files = EmptyMap
         /\ lsIndex = IF useV2 \/ ~hasProject THEN << >> ELSE <<Entry(P1, "My Project")>>
         /\ lsActive = IF useV2 \/ ~hasProject THEN "" ELSE P1
         /\ lsTree = IF useV2 \/ ~hasProject THEN EmptyMap
                     ELSE Put(EmptyMap, P1, LeavesOf(DOMAIN files))
         /\ lsFiles = IF useV2 \/ ~hasProject THEN EmptyMap
                      ELSE Put(EmptyMap, P1, RecordsOf(files, DOMAIN files))
         /\ v2Index = IF useV2 /\ hasProject THEN <<Entry(P1, "My Project")>> ELSE << >>
         /\ v2Docs = IF useV2 /\ hasProject
                     THEN Put(EmptyMap, P1, WithStats(v2DefaultDoc, files)) ELSE EmptyMap
         /\ v2Files = IF useV2 /\ hasProject THEN Put(EmptyMap, P1, files) ELSE EmptyMap
         /\ v2ActiveProjectId = IF useV2 /\ hasProject THEN P1 ELSE ""
         /\ usedIds = IF hasProject THEN {P1} ELSE {}
    /\ call = NoCall /\ pendingTreeChanged = {}
    /\ bgPending = FALSE /\ bgFailed = FALSE /\ ensuring = {}
    /\ ViewIdle /\ SubsIdle /\ BootIdle /\ ParkedIdle /\ IdbIdle
    /\ NormIdle /\ BusIdle /\ ChatIdle /\ MigIdle

NextVfs ==
    \/ VfsStarts
    \/ \E rejects \in BOOLEAN : VfsGetFiles(rejects)
    \/ VfsGetActiveRejects
    \/ VfsRestores

SpecVfs ==
    InitVfs /\ [][NextVfs /\ UNCHANGED <<normVars, busVars, chatVars, migVars,
                                          hv, subs, boot, parked, idb>>]_vars

\* the active-file pointer getActivePath() reads
ActiveFilePath ==
    IF useV2 THEN (IF V2DocOf(getActiveProjectId) = NoDoc THEN Null
                   ELSE V2DocOf(getActiveProjectId).activeFilePath)
    ELSE vfs.pointer

\* C19: after initializeFromStorage over a saved snapshot of one file or more,
\* the files of the active project are those of the snapshot, and the pointer
\* is the saved one if it is a path of the snapshot, else index.html if that
\* is one, else null
C19_RestoreExact ==
    (vfs.pc = "done" /\ vfs.saved.persisted /\ DOMAIN vfs.saved.files # {})
    => /\ FilesOf(getActiveProjectId) = vfs.saved.files
       /\ ActiveFilePath =
            IF vfs.saved.active \in DOMAIN vfs.saved.files THEN vfs.saved.active
            ELSE IF IndexHtml \in DOMAIN vfs.saved.files THEN IndexHtml
            ELSE Null

\* a restore that deleted a file, with a saved pointer and index.html both in
\* the snapshot
C19_Witness ==
    /\ vfs.pc = "done" /\ vfs.saved.persisted
    /\ DOMAIN vfs.before \ DOMAIN vfs.saved.files # {}
    /\ vfs.saved.active = <<A>>
    /\ {<<A>>, IndexHtml} \subseteq DOMAIN vfs.saved.files
    /\ ActiveFilePath = <<A>>

\* C20: the seed files are written only when no snapshot was persisted and the
\* active project held no file; otherwise, unless a snapshot is restored, the
\* files are left as they were
C20_SeedOnlyFirstRun ==
    vfs.pc = "done"
    => /\ vfs.seeded => (~vfs.saved.persisted /\ DOMAIN vfs.before = {})
       /\ (~vfs.seeded /\ DOMAIN vfs.saved.files = {})
          => FilesOf(getActiveProjectId) = vfs.before

(***************************************************************************)
(* SpecRen: renamePath between directories of a project that holds files   *)
(* several directories deep, on either route.                              *)
(***************************************************************************)
DeepPaths ==
    { <<A, SLASH, A, SLASH, A>>, <<A, SLASH, A, SLASH, A, SLASH, A>>,
      <<A, SLASH, B>>, <<B, SLASH, A>> }

\* the directories renamePath is called with
DirArgs == { <<A>>, <<A, SLASH, A>>, <<B>> }

\* the file maps writeFile calls at deep paths leave
DeepMaps ==
    UNION {[S -> Contents] : S \in {T \in SUBSET DeepPaths : Cardinality(T) <= MaxFiles}}

\* the records and the tree snapshot v1 writeFile calls leave for a file map
RECURSIVE V1Written(_, _, _)
V1Written(files, todo, acc) ==
    IF todo = {} THEN acc
    ELSE LET k == CHOOSE x \in todo : TRUE
         IN V1Written(files, todo \ {k},
                      [recs |-> writeFileRecord(acc.recs, k, files[k]),
                       tree |-> addOrUpdateFileLeaf(acc.tree, k)])

InitRen ==
    /\ useV2 \in BOOLEAN
    /\ \E files \in DeepMaps :
         LET w == V1Written(files, DOMAIN files, [recs |-> EmptyMap, tree |-> ensureRootTree])
         IN /\ lsTree = IF useV2 THEN EmptyMap ELSE Put(EmptyMap, P1, w.tree)
            /\ lsFiles = IF useV2 THEN EmptyMap ELSE Put(EmptyMap, P1, w.recs)
            /\ v2Docs = IF useV2 THEN Put(EmptyMap, P1, WithStats(v2DefaultDoc, files))
                         ELSE EmptyMap
            /\ v2Files = IF useV2 THEN Put(EmptyMap, P1, files) ELSE EmptyMap
    /\ call = NoCall
    /\ pendingTreeChanged = {}
    /\ lsIndex = IF useV2 THEN << >> ELSE <<Entry(P1, "My Project")>>
    /\ lsActive = IF useV2 THEN "" ELSE P1
    /\ v2Index = IF useV2 THEN <<Entry(P1, "My Project")>> ELSE << >>
    /\ v2ActiveProjectId = IF useV2 THEN P1 ELSE ""
    /\ bgPending = FALSE
    /\ bgFailed = FALSE
    /\ usedIds = {P1}
    /\ ensuring = {}
    /\ NormIdle /\ BusIdle /\ ChatIdle /\ MigIdle /\ AuxIdle

NextRen ==
    \/ \E from \in DirArgs, to \in DirArgs : RenamePath(from, to)
    \/ BgComplete
    \/ BgFail

SpecRen ==
    InitRen /\ [][NextRen /\ UNCHANGED <<normVars, busVars, chatVars, migVars, auxVars>>]_vars

\* where the claim puts a file of the directory src renamed to dst
RenamedTo(k, src, dst) ==
    IF AtOrUnder(k, src) THEN dst \o Slice(k, Len(src)) ELSE k

\* the file map of the active project, over given caches and records
ActiveFilesIn(v2f, lsf) ==
    IF useV2 THEN (IF v2ActiveProjectId \in DOMAIN v2f THEN v2f[v2ActiveProjectId] ELSE EmptyMap)
    ELSE IF lsActive \in DOMAIN lsf
    THEN [q \in listAllFilePaths(lsf[lsActive]) |-> readFileRecord(lsf[lsActive], q)]
    ELSE EmptyMap

\* C22: renamePath(src, dst) of a directory src, with dst not at or under
\* src and no file at or under dst other than those under src, leaves each
\* file src/r at dst/r with its content, every other file unchanged and as
\* many files as before, on either route
C22_RenameDirectory ==
    [][\A from \in DirArgs, to \in DirArgs :
         LET src == Normalize(from)
             dst == Normalize(to)
             files == ActiveFilesIn(v2Files, lsFiles)
             after == ActiveFilesIn(v2Files', lsFiles')
         IN (/\ src \notin DOMAIN files
             /\ \E k \in DOMAIN files : AtOrUnder(k, src)
             /\ ~AtOrUnder(dst, src)
             /\ \A k \in DOMAIN files : AtOrUnder(k, dst) => AtOrUnder(k, src)
             /\ RenamePath(from, to))
            => /\ DOMAIN after = {RenamedTo(k, src, dst) : k \in DOMAIN files}
               /\ \A k \in DOMAIN files : after[RenamedTo(k, src, dst)] = files[k]
               /\ Cardinality(DOMAIN after) = Cardinality(DOMAIN files)]_vars

\* the paths of all nodes of a tree, directories included
RECURSIVE NodePaths(_)
NodePaths(n) ==
    IF n.type = "file" THEN {n.path}
    ELSE {n.path} \cup UNION {NodePaths(n.children[i]) : i \in 1..Len(n.children)}

\* v2BuildTree over a given cache
TreeIn(v2f, v2d) ==
    LET id == getActiveProjectId
    IN AddFiles(AddDirs(ensureRootTree,
                        IF id \in DOMAIN v2d
                        THEN {v2Normalize(d) : d \in v2d[id].explicitDirs} ELSE {}),
                IF id \in DOMAIN v2f THEN DOMAIN v2f[id] ELSE {})

\* C23: on the v2 route, after deletePath(d) of a directory d the tree holds
\* no node at or under d
C23_DeleteDirectoryV2 ==
    [][\A path \in ViewPaths :
         LET d == v2Normalize(path)
             hit == locateNode(listTree, d)
         IN (/\ useV2 /\ hv.pc = "idle"
             /\ hit # NoNode /\ hit.type = "directory"
             /\ d \notin DOMAIN V2FilesOf(getActiveProjectId)
             /\ ViewDeletePath(path))
            => \A q \in NodePaths(TreeIn(v2Files', v2Docs')) : ~AtOrUnder(q, d)]_vars

\* the active id names a project of the index, or is null on an empty index
ActiveNamesProject(index, active) ==
    IF Len(index) = 0 THEN active = "" ELSE active \in IdsOf(index)

\* C30: a createProject, deleteProject, renameProject, or a setActiveProject
\* of a listed id, made when the active id names a project of the list (or is
\* null on an empty list), leaves it so
C30_ActiveInList ==
    [][(/\ ActiveNamesProject(IndexIn(v2Index, lsIndex),
                              ActiveIn(v2ActiveProjectId, lsActive))
        /\ call' # call
        /\ \/ call'.op \in {"createProject", "deleteProject", "renameProject"}
           \/ /\ call'.op = "setActiveProject"
              /\ call'.path[1] \in IdsOf(IndexIn(v2Index, lsIndex)))
       => ActiveNamesProject(IndexIn(v2Index', lsIndex'),
                             ActiveIn(v2ActiveProjectId', lsActive'))]_vars

(***************************************************************************)
(* SpecNorm: the two normalizers applied to every short string             *)
(***************************************************************************)
\* the longest input string
MaxLen == 5

\* the code units of the inputs: a letter, both separators and the dot
Alphabet == {A, SLASH, BSLASH, DOT}

Strings(n) == UNION {[1..k -> Alphabet] : k \in 0..n}

\* normalizePath(p) and normalizePath(normalizePath(p)), facade normalizer
ApplyNormalizePath ==
    /\ normOut.fn = "none"
    /\ normOut' = [fn |-> "normalizePath",
                   once |-> normalizePath(normIn),
                   twice |-> normalizePath(normalizePath(normIn))]
    /\ UNCHANGED <<normIn, fsVars, busVars, chatVars, migVars, auxVars>>

\* the same two calls of storageV2.normalizePath
ApplyV2Normalize ==
    /\ normOut.fn = "none"
    /\ normOut' = [fn |-> "storageV2.normalizePath",
                   once |-> v2Normalize(normIn),
                   twice |-> v2Normalize(v2Normalize(normIn))]
    /\ UNCHANGED <<normIn, fsVars, busVars, chatVars, migVars, auxVars>>

InitNorm ==
    /\ normIn \in Strings(MaxLen)
    /\ normOut = [fn |-> "none"]
    /\ FsIdle /\ BusIdle /\ ChatIdle /\ MigIdle /\ AuxIdle

NextNorm == ApplyNormalizePath \/ ApplyV2Normalize

SpecNorm == InitNorm /\ [][NextNorm]_vars

\* C10: both normalizers return a string for every input and normalizing the
\* result again changes nothing
C10_NormalizeIdempotent ==
    normOut.fn # "none"
    => /\ normOut.once \in Strings(MaxLen)
       /\ normOut.twice = normOut.once

\* '..' segments that would pop past the root, behind mixed separators: the
\* facade normalizer clamps at the root and the result is stable
C10_Witness ==
    /\ normIn = <<BSLASH, DOT, DOT, SLASH, A>>
    /\ normOut.fn = "normalizePath"
    /\ normOut.once = <<A>>
    /\ normOut.twice = <<A>>

\* the canonical form of a path as the specification words it: backslashes
\* become slashes, then the segments between slashes are read left to right,
\* empty and '.' segments dropped, '..' removing the segment before it if any
RECURSIVE CanonicalParts(_, _)
CanonicalParts(segs, kept) ==
    IF Len(segs) = 0 THEN kept
    ELSE LET seg == Head(segs)
         IN IF seg = EmptyStr \/ seg = <<DOT>> THEN CanonicalParts(Tail(segs), kept)
            ELSE IF seg = DotDot
                 THEN CanonicalParts(Tail(segs),
                                     IF kept = << >> THEN kept
                                     ELSE SubSeq(kept, 1, Len(kept) - 1))
            ELSE CanonicalParts(Tail(segs), kept \o <<seg>>)

CanonicalPath(p) == JoinSlash(CanonicalParts(SplitSlash(ReplaceBackslashes(p)), << >>))

\* C11: each normalizer returns the canonical form of its input, so the two
\* return the same result for every input
C11_CanonicalForm ==
    normOut.fn # "none"
    => /\ normOut.once = CanonicalPath(normIn)
       /\ normalizePath(normIn) = v2Normalize(normIn)

(***************************************************************************)
(* Claims about the file operations, checked under Spec                    *)
(***************************************************************************)
\* the files of the active project, as the facade lists them, before a step
Files == FilesOf(P1)

\* the same listing over the stores a step leaves
FilesIn(v2f, lsf) ==
    IF useV2 THEN (IF P1 \in DOMAIN v2f THEN v2f[P1] ELSE EmptyMap)
    ELSE LET recs == IF P1 \in DOMAIN lsf THEN lsf[P1] ELSE EmptyMap
         IN [q \in listAllFilePaths(recs) |-> readFileRecord(recs, q)]

\* readFile(path) over the stores a step leaves
ReadIn(v2f, lsf, path) ==
    IF useV2 THEN Get(IF P1 \in DOMAIN v2f THEN v2f[P1] ELSE EmptyMap, v2Normalize(path))
    ELSE IF encodePath(normalizePath(path)) = URIError THEN URIError
    ELSE readFileRecord(IF P1 \in DOMAIN lsf THEN lsf[P1] ELSE EmptyMap,
                        normalizePath(path))

\* C1: after writeFile(p, c) has returned, readFile(q) gives c for every q the
\* route's normalizer maps to the same path as p, while the background writes
\* are pending, after they completed and after one failed
C1_WriteThenRead ==
    (call.op = "writeFile" /\ call.ret = "void")
    => \A q \in RawPaths :
         Normalize(q) = Normalize(call.path) => readFile(q) = call.content

\* a write through an unnormalized path is read back through the normalized
\* one after a background write has failed
C1_Witness ==
    /\ useV2 /\ bgFailed
    /\ call.op = "writeFile" /\ call.ret = "void"
    /\ call.path = <<SLASH, A, BSLASH, B>>
    /\ call.content = <<"h", "i">>
    /\ readFile(<<A, SLASH, B>>) = <<"h", "i">>

\* C2: renamePath(from, to) of a stored file to a different normalized path
\* leaves the content of from at to, nothing at from, and every other file as
\* it was
C2_RenameFile ==
    [][\A from \in RawPaths, to \in RawPaths :
         (/\ call'.op = "renamePath" /\ call'.ret = "void"
          /\ Normalize(from) # Normalize(to)
          /\ Normalize(from) \in DOMAIN Files
          /\ RenamePath(from, to))
         => LET after == FilesIn(v2Files', lsFiles')
            IN /\ ReadIn(v2Files', lsFiles', to) = readFile(from)
               /\ ReadIn(v2Files', lsFiles', from) = Null
               /\ \A q \in (DOMAIN Files \cup DOMAIN after)
                            \ {Normalize(from), Normalize(to)} :
                    Get(after, q) = Get(Files, q)]_vars

\* C3: deletePath(d), d not itself a file, removes exactly the files at d or
\* under d + '/' and leaves every other file and its content
C3_DeleteDirectory ==
    [][\A d \in RawPaths :
         (/\ call'.op = "deletePath" /\ call'.ret = "void"
          /\ Normalize(d) \notin DOMAIN Files
          /\ DeletePath(d))
         => FilesIn(v2Files', lsFiles')
            = [q \in {k \in DOMAIN Files : ~AtOrUnder(k, Normalize(d))} |-> Files[q]]]_vars

\* C4: deleteFile(p) where no file is stored returns false and changes no file;
\* after deleteFile(p) returned true readFile(p) is null and the next
\* deleteFile(p) returns false; no call throws
C4_DeleteFile ==
    [][\A p \in RawPaths \cup MalformedPaths :
         (call'.op = "deleteFile" /\ DeleteFile(p))
         => /\ call'.ret # "throws"
            /\ Normalize(p) \notin DOMAIN Files
               => (call'.ret = "false" /\ FilesIn(v2Files', lsFiles') = Files)
            /\ call'.ret = "true" => ReadIn(v2Files', lsFiles', p) = Null
            /\ (call.op = "deleteFile" /\ call.path = p /\ call.ret = "true")
               => call'.ret = "false"]_vars

(***************************************************************************)
(* SpecOps: every file operation of the facade on one active project,      *)
(* called with normalized paths, on either route                           *)
(***************************************************************************)
OpsPaths == { <<A>>, <<A, SLASH, B>> }

NextOps ==
    \/ \E path \in OpsPaths, content \in Contents : WriteFile(path, content)
    \/ \E path \in OpsPaths, content \in Contents : UpdateFile(path, content)
    \/ \E path \in FolderPaths : CreateFolder(path)
    \/ \E path \in OpsPaths : DeletePath(path)
    \/ \E from \in OpsPaths, to \in OpsPaths : RenamePath(from, to)
    \/ Clear
    \/ BgComplete
    \/ BgFail

SpecOps ==
    Init /\ [][NextOps /\ UNCHANGED <<normVars, busVars, chatVars, migVars, auxVars>>]_vars

\* C33: updateFile(path, content) on a path that holds no file returns null,
\* stores no file and emits no event; on a stored file it replaces the
\* content and returns the file
C33_UpdateFile ==
    [][\A path \in OpsPaths, content \in Contents :
         (call'.op = "updateFile" /\ UpdateFile(path, content))
         => IF readFile(path) = Null
            THEN /\ call'.ret = "null"
                 /\ FilesIn(v2Files', lsFiles') = Files
                 /\ pendingTreeChanged' = pendingTreeChanged
            ELSE /\ call'.ret = "file"
                 /\ ReadIn(v2Files', lsFiles', path) = content]_vars

\* C35: on the v2 route the cached doc's stats.fileCount is the number of
\* cached file records and stats.totalBytes the sum of their sizes, after
\* every facade operation
C35_StatsMatch ==
    (useV2 /\ V2DocOf(P1) # NoDoc)
    => /\ V2DocOf(P1).fileCount = v2ComputeStats(V2FilesOf(P1)).fileCount
       /\ V2DocOf(P1).totalBytes = v2ComputeStats(V2FilesOf(P1)).totalBytes

\* C38: on the v1 route the file leaves of the persisted tree snapshot are
\* the stored file-record paths, after every facade operation
C38_TreeMatchesRecords ==
    ~useV2 => TreeFilePaths(LsTreeOf(P1)) = listAllFilePaths(LsRecsOf(P1))

(***************************************************************************)
(* SpecBoth: two services, one on each route, each with the empty project  *)
(* p1 active, receive the same calls.  useV2 is the flag of the service    *)
(* that takes the next call: the v1 service takes a call, then the v2      *)
(* service takes the same one.                                             *)
(***************************************************************************)
BothPaths == { <<A>>, <<A, SLASH, B>> }

\* the calls of a sequence
BothCalls ==
    [op : {"writeFile"}, a : BothPaths, b : Contents]
    \cup [op : {"deletePath"}, a : BothPaths, b : {EmptyStr}]
    \cup [op : {"renamePath"}, a : BothPaths, b : BothPaths]

\* the call o on the service whose flag is useV2
Apply(o) ==
    IF o.op = "writeFile" THEN WriteFile(o.a, o.b)
    ELSE IF o.op = "deletePath" THEN DeletePath(o.a)
    ELSE RenamePath(o.a, o.b)

\* the v1 service takes the next call of the sequence
BothCallV1(o) ==
    /\ parked.pc = "v1" /\ ~useV2
    /\ Apply(o)
    /\ parked' = [pc |-> "turn", op |-> o]

\* the v2 service takes the call the v1 service took
BothCallV2 ==
    /\ parked.pc = "v2" /\ useV2
    /\ Apply(parked.op)
    /\ parked' = [parked EXCEPT !.pc = "back"]

\* the next call goes to the other service
BothTurn ==
    /\ parked.pc \in {"turn", "back"}
    /\ useV2' = ~useV2
    /\ parked' = [parked EXCEPT !.pc = IF @ = "turn" THEN "v2" ELSE "v1"]
    /\ UNCHANGED <<call, pendingTreeChanged, lsIndex, lsActive, lsTree, lsFiles,
                   v2Index, v2Docs, v2Files, v2ActiveProjectId, bgPending, bgFailed,
                   usedIds, ensuring>>

InitBoth ==
    /\ useV2 = FALSE
    /\ call = NoCall /\ pendingTreeChanged = {}
    /\ lsIndex = <<Entry(P1, "My Project")>> /\ lsActive = P1
    /\ lsTree = Put(EmptyMap, P1, ensureRootTree)
    /\ lsFiles = Put(EmptyMap, P1, EmptyMap)
    /\ v2Index = <<Entry(P1, "My Project")>> /\ v2ActiveProjectId = P1
    /\ v2Docs = Put(EmptyMap, P1, v2DefaultDoc)
    /\ v2Files = Put(EmptyMap, P1, EmptyMap)
    /\ bgPending = FALSE /\ bgFailed = FALSE /\ usedIds = {P1} /\ ensuring = {}
    /\ parked = [pc |-> "v1", op |-> [op |-> "none"]]
    /\ ViewIdle /\ SubsIdle /\ BootIdle /\ VfsIdle /\ IdbIdle
    /\ NormIdle /\ BusIdle /\ ChatIdle /\ MigIdle

NextBoth ==
    \/ \E o \in BothCalls : BothCallV1(o)
    \/ BothCallV2
    \/ BothTurn

SpecBoth ==
    InitBoth /\ [][NextBoth /\ UNCHANGED <<normVars, busVars, chatVars, migVars,
                                            hv, subs, boot, vfs, idb>>]_vars

\* C39: after the same sequence of writeFile, deletePath and renamePath
\* calls on an empty project, getAllFiles returns the same path-to-content
\* map on the v1 route and on the v2 route
C39_SameFiles ==
    parked.pc \in {"back", "v1"} => LsFilesOf(P1) = V2FilesOf(P1)

(***************************************************************************)
(* SpecPair: appendMessage calls that overlap.  sendMessage does not await *)
(* appendMessage, so a call can be made while another one waits at an      *)
(* await.  chatPc and chatLocal are those of the call that runs next,      *)
(* parked is the other call with the number of calls made.                 *)
(***************************************************************************)
\* the appendMessage calls made on top of the stored chat
MaxPair == 2

\* the stored chats a pair of calls meets: none, or 99 messages in segment 0
StoredCounts == {0, SEGMENT_SIZE_DEFAULT - 1}

\* loadAllMessages: the segments 0 .. meta.segments - 1 one after the other
\* (at least segment 0 on v1)
RECURSIVE ConcatSegments(_, _, _)
ConcatSegments(segs, i, n) ==
    IF i >= n THEN << >>
    ELSE GetChatSegment(segs, i) \o ConcatSegments(segs, i + 1, n)

loadAllMessages ==
    IF chatMeta = NoMeta THEN << >>
    ELSE IF chatV2 THEN ConcatSegments(chatSegs, 0, chatMeta.segments)
    ELSE ConcatSegments(chatSegs, 0, IF chatMeta.segments > 1 THEN chatMeta.segments ELSE 1)

\* a caller calls appendMessage(projectId, msg) while no call is the running one
PairStart ==
    /\ chatPc = "idle"
    /\ parked.calls < MaxPair
    /\ chatPc' = IF chatV2 THEN "getMeta" ELSE "v1"
    /\ chatLocal' = [msg |-> parked.stored + parked.calls + 1]
    /\ parked' = [parked EXCEPT !.calls = @ + 1]
    /\ UNCHANGED <<chatV2, chatMeta, chatSegs, appended>>

\* the other call becomes the running one: its await settles first, or the
\* running call has returned or has not been made yet
PairSwitch ==
    /\ chatPc # parked.pc \/ chatLocal # parked.local
    /\ chatPc' = parked.pc
    /\ chatLocal' = parked.local
    /\ parked' = [parked EXCEPT !.pc = chatPc, !.local = chatLocal]
    /\ UNCHANGED <<chatV2, chatMeta, chatSegs, appended>>

\* the running call goes on to its next await
PairStep ==
    /\ \/ AppendGetMeta
       \/ AppendGetSeg
       \/ AppendPutFirst
       \/ AppendRollover
       \/ AppendPutSeg
       \/ AppendPutMeta
       \/ AppendV1
    /\ UNCHANGED parked

InitPair ==
    /\ chatV2 \in BOOLEAN
    /\ \E n \in StoredCounts :
         /\ appended = n
         /\ chatMeta = IF n = 0 THEN NoMeta ELSE ChatMeta(n, 1, SEGMENT_SIZE_DEFAULT)
         /\ chatSegs = IF n = 0 THEN EmptyMap
                       ELSE Put(EmptyMap, 0, ExpectedSegment(0, n, SEGMENT_SIZE_DEFAULT))
         /\ parked = [pc |-> "idle", local |-> NoLocal, calls |-> 0, stored |-> n]
    /\ chatPc = "idle" /\ chatLocal = NoLocal
    /\ FsIdle /\ NormIdle /\ BusIdle /\ MigIdle
    /\ ViewIdle /\ SubsIdle /\ BootIdle /\ VfsIdle /\ IdbIdle

NextPair == PairStart \/ PairSwitch \/ PairStep

SpecPair ==
    InitPair /\ [][NextPair /\ UNCHANGED <<normVars, fsVars, busVars, migVars,
                                            hv, subs, boot, vfs, idb>>]_vars

\* C34: when every appendMessage call made has completed, in any
\* interleaving of their awaits, the segments hold every message and
\* meta.totalMessages is their number
C34_NoLostAppend ==
    (chatPc = "idle" /\ parked.pc = "idle" /\ parked.calls > 0)
    => /\ chatMeta.totalMessages = parked.stored + parked.calls
       /\ \A m \in 1..(parked.stored + parked.calls) :
            \E i \in 1..Len(loadAllMessages) : loadAllMessages[i] = m

(***************************************************************************)
(* SpecClear: awaited appendMessage calls with clearChat calls between     *)
(* them.  appended counts the calls completed since the last clearChat,    *)
(* and the messages a clearChat leaves in the segments become 0.           *)
(***************************************************************************)
\* the stored segments, their messages told apart from later ones
Hidden(segs) == [i \in DOMAIN segs |-> [j \in 1..Len(segs[i]) |-> 0]]

\* a clearChat that resets the meta only, on both backends
ClearChatMetaOnly ==
    /\ chatPc = "idle"
    /\ chatMeta' = ChatMeta(0, IF chatV2 THEN 0 ELSE 1, SEGMENT_SIZE_DEFAULT)
    /\ chatSegs' = Hidden(chatSegs)
    /\ appended' = 0
    /\ UNCHANGED <<chatV2, chatPc, chatLocal>>

\* clearChat(projectId): v2 puts a meta of 0 segments and leaves the
\* segments; v1 writes a meta of 1 segment and segment 0 empty
ClearChat ==
    /\ chatPc = "idle"
    /\ chatMeta' = ChatMeta(0, IF chatV2 THEN 0 ELSE 1, SEGMENT_SIZE_DEFAULT)
    /\ chatSegs' = IF chatV2 THEN Hidden(chatSegs)
                   ELSE Put(Hidden(chatSegs), 0, << >>)
    /\ appended' = 0
    /\ UNCHANGED <<chatV2, chatPc, chatLocal>>

NextClear == NextChat \/ ClearChat

SpecClear ==
    InitChat /\ [][NextClear /\ UNCHANGED <<normVars, fsVars, busVars, migVars,
                                             auxVars>>]_vars

\* C40: after clearChat, and after each awaited appendMessage that follows,
\* loadAllMessages returns exactly the messages appended since the clear, in
\* order, and meta.totalMessages is their number
C40_ClearThenAppend ==
    (chatPc = "idle" /\ chatMeta # NoMeta)
    => /\ loadAllMessages = [j \in 1..appended |-> j]
       /\ chatMeta.totalMessages = appended

\* a hundred messages appended after a clear, while segment 1 still holds
\* the message stored in it before the clear
C40_Witness ==
    /\ chatPc = "idle" /\ appended = SEGMENT_SIZE_DEFAULT
    /\ GetChatSegment(chatSegs, 1) = <<0>>
    /\ GetChatSegment(chatSegs, 0) = ExpectedSegment(0, appended, SEGMENT_SIZE_DEFAULT)
    /\ Len(loadAllMessages) = SEGMENT_SIZE_DEFAULT

(***************************************************************************)
(* SpecPersist: the debounced persistence of the snapshot.  The facade is  *)
(* called on the active project until the calls stop; the 50 ms timer of   *)
(* tree:changed and the 500 ms timer of __scheduleVfsPersist fire and the  *)
(* KV writes land.  vfs holds __vfsSaveTimer, what a run of                *)
(* __vfsPersistNow read and is writing, what the last completed run read   *)
(* (the KV entries are KvEntries of it) and the calls made.                *)
(***************************************************************************)
PersistContents == { <<"h">> }
\* the facade calls of a session
MaxCalls == 3
PointerArgs == { Null, <<A>> }
NoWrite == [none |-> TRUE]

\* __vfsBuildSnapshot reads the files of the active project and the active
\* file path of its entry in the list
vfsBuildSnapshot ==
    LET id == getActiveProjectId
    IN IF id = "" THEN [files |-> EmptyMap, active |-> Null]
       ELSE [files |-> FilesOf(id), active |-> ActiveFilePath]

\* and keeps them under storageV2.normalizePath: filesMap[p] = content
RECURSIVE SnapshotFiles(_, _)
SnapshotFiles(files, keys) ==
    IF keys = {} THEN EmptyMap
    ELSE LET k == CHOOSE x \in keys : TRUE
         IN Put(SnapshotFiles(files, keys \ {k}), v2Normalize(k), files[k])

\* the KV entries a snapshot read is stored as
KvEntries(snap) ==
    [files |-> SnapshotFiles(snap.files, DOMAIN snap.files),
     active |-> IF snap.active = Null THEN Null ELSE v2Normalize(snap.active)]

\* a facade call on the files of the active project: its file events wait
\* for the tree:changed timer, clear and the v1 createFolder emit none
PersistFileCall ==
    /\ ~vfs.quiet /\ vfs.calls < MaxCalls
    /\ \/ \E path \in OpsPaths, content \in PersistContents : WriteFile(path, content)
       \/ \E path \in FolderPaths : CreateFolder(path)
       \/ \E path \in OpsPaths : DeletePath(path)
       \/ \E from \in OpsPaths, to \in OpsPaths : RenamePath(from, to)
       \/ Clear
    /\ vfs' = [vfs EXCEPT !.calls = @ + 1]

\* setActiveFilePath(path): project:metaChanged is emitted with an
\* activeFilePath patch and the listener calls __scheduleVfsPersist
SetActiveFilePath(path) ==
    LET id == getActiveProjectId
    IN /\ ~vfs.quiet /\ vfs.calls < MaxCalls
       /\ id # ""
       /\ IF useV2
          THEN /\ V2DocOf(id) # NoDoc
               /\ v2Docs' = Put(v2Docs, id,
                                [V2DocOf(id) EXCEPT !.activeFilePath = PointerOf(path)])
               /\ bgPending' = TRUE
               /\ vfs' = [vfs EXCEPT !.timer = TRUE, !.calls = @ + 1]
          ELSE /\ id \in IdsOf(lsIndex)
               /\ vfs' = [vfs EXCEPT !.timer = TRUE, !.pointer = PointerOf(path),
                                     !.calls = @ + 1]
               /\ UNCHANGED <<v2Docs, bgPending>>
       /\ call' = Call("setActiveFilePath", EmptyStr, EmptyStr, "void", "none", 0)
       /\ UNCHANGED <<useV2, pendingTreeChanged, lsIndex, lsActive, lsTree, lsFiles,
                      v2Index, v2Files, v2ActiveProjectId, bgFailed, usedIds, ensuring>>

\* the 50 ms timer fires: tree:changed of the project is emitted and the
\* listener calls __scheduleVfsPersist when the project is the active one
TreeChangedFires ==
    \E projectId \in pendingTreeChanged :
       /\ TreeChangedTimer(projectId)
       /\ vfs' = [vfs EXCEPT !.timer = @ \/ projectId = getActiveProjectId]

\* the 500 ms timer fires: __vfsPersistNow builds the snapshot and starts
\* the first of its two KV writes
PersistFires ==
    /\ vfs.timer /\ vfs.writing = NoWrite
    /\ vfs' = [vfs EXCEPT !.timer = FALSE, !.writing = vfsBuildSnapshot]
    /\ VfsFrame

\* idbKvSet('vfs:files') and idbKvSet('vfs:active') have resolved
PersistWritten ==
    /\ vfs.writing # NoWrite
    /\ vfs' = [vfs EXCEPT !.writing = NoWrite, !.files = vfs.writing.files,
                          !.active = vfs.writing.active]
    /\ VfsFrame

\* the last call has been made
CallsStop ==
    /\ ~vfs.quiet
    /\ vfs' = [vfs EXCEPT !.quiet = TRUE]
    /\ VfsFrame

PersistFrame ==
    UNCHANGED <<normVars, busVars, chatVars, migVars, hv, subs, boot, parked, idb>>

\* a booted session whose first snapshot, of the empty project, is stored
InitPersist ==
    /\ FsBooted /\ NormIdle /\ BusIdle /\ ChatIdle /\ MigIdle
    /\ ViewIdle /\ SubsIdle /\ BootIdle /\ ParkedIdle /\ IdbIdle
    /\ vfs = [timer |-> FALSE, writing |-> NoWrite, files |-> EmptyMap,
              active |-> Null, pointer |-> Null, quiet |-> FALSE, calls |-> 0]

NextPersist ==
    \/ PersistFileCall /\ PersistFrame
    \/ \E path \in PointerArgs : SetActiveFilePath(path) /\ PersistFrame
    \/ TreeChangedFires /\ PersistFrame
    \/ PersistFires /\ PersistFrame
    \/ PersistWritten /\ PersistFrame
    \/ CallsStop /\ PersistFrame

\* timers fire and KV writes resolve
SpecPersist ==
    /\ InitPersist /\ [][NextPersist]_vars
    /\ WF_vars(TreeChangedFires /\ PersistFrame)
    /\ WF_vars(PersistFires /\ PersistFrame)
    /\ WF_vars(PersistWritten /\ PersistFrame)

\* the two KV entries are the file map and the active-file pointer of the
\* active project as they are now
SnapshotCurrent ==
    /\ KvEntries(vfs).files = FilesOf(getActiveProjectId)
    /\ KvEntries(vfs).active = ActiveFilePath

\* C31: once the calls have stopped, the persisted snapshot eventually is
\* the file map and the active-file pointer of the active project
C31_EventuallyPersisted == vfs.quiet ~> SnapshotCurrent

(***************************************************************************)
(* SpecTwice: initializeFromStorage called by two components.  The second  *)
(* call is made while the first waits at an await, where __vfsInitialized  *)
(* is still false.  vfs.pc is the position of the call that runs next,     *)
(* parked that of the other call.                                          *)
(***************************************************************************)
\* a second component calls initializeFromStorage; the call runs up to its
\* first await
VfsSecondCall ==
    /\ parked = NoParked
    /\ vfs.pc \in {"files", "active"}
    /\ parked' = [pc |-> vfs.pc]
    /\ vfs' = [vfs EXCEPT !.pc = "files"]
    /\ VfsFrame

\* the other call is the one that goes on
VfsSwitch ==
    /\ parked # NoParked
    /\ parked.pc \notin {"done", "failed"}
    /\ vfs' = [vfs EXCEPT !.pc = parked.pc]
    /\ parked' = [pc |-> vfs.pc]
    /\ VfsFrame

NextTwice ==
    \/ NextVfs /\ UNCHANGED parked
    \/ VfsSecondCall
    \/ VfsSwitch

SpecTwice ==
    InitVfs /\ [][NextTwice /\ UNCHANGED <<normVars, busVars, chatVars, migVars,
                                            hv, subs, boot, idb>>]_vars

\* C32: the call that goes past its awaits after the other call has
\* completed neither restores the saved files, nor writes the seed files,
\* nor creates a project
C32_InitializeOnce ==
    [][(vfs.pc = "active" /\ vfs'.pc = "done" /\ parked.pc = "done")
       => /\ DOMAIN vfs.saved.files = {}
          /\ ~vfs'.seeded
          /\ usedIds' = usedIds]_vars

(***************************************************************************)
(* SpecSwitch: a session with two projects in which the active project is  *)
(* switched, the end of the session, and initializeFromStorage at the next *)
(* boot.  vfs.saved is the pair of KV entries, vfs.from the project that   *)
(* was active when their snapshot was built.                               *)
(***************************************************************************)
\* the files of the two projects
SwitchMaps1 ==
    { Put(EmptyMap, <<A>>, <<"h">>),
      Put(Put(EmptyMap, <<A>>, <<"h">>), <<A, SLASH, B>>, <<"g">>) }
SwitchMaps2 ==
    { EmptyMap, Put(EmptyMap, <<A>>, <<"x">>), Put(EmptyMap, <<B>>, <<"x">>) }

\* setActiveProject(id): project:activeChanged is emitted and the listener
\* calls __scheduleVfsPersist
SwitchProject(id) ==
    /\ vfs.pc = "session"
    /\ id # getActiveProjectId
    /\ SetActiveProject(id)
    /\ vfs' = [vfs EXCEPT !.timer = TRUE]

\* the 500 ms timer fires and __vfsPersistNow writes the snapshot of the
\* project that is active now
SwitchPersists ==
    /\ vfs.pc = "session" /\ vfs.timer
    /\ vfs' = [vfs EXCEPT !.timer = FALSE,
                          !.saved = [persisted |-> TRUE,
                                     files |-> KvEntries(vfsBuildSnapshot).files,
                                     active |-> KvEntries(vfsBuildSnapshot).active],
                          !.from = getActiveProjectId]
    /\ VfsFrame

\* the session ends, a pending persist timer with it; the next one boots
\* with the stored active project and initializeFromStorage is called
SessionEnds ==
    /\ vfs.pc = "session"
    /\ vfs' = [vfs EXCEPT !.pc = "start", !.timer = FALSE]
    /\ VfsFrame

\* p1 is active and the stored snapshot is the one built from it
InitSwitch ==
    /\ useV2 \in BOOLEAN
    /\ \E f1 \in SwitchMaps1, f2 \in SwitchMaps2 :
         LET of(id) == IF id = P1 THEN f1 ELSE f2
         IN /\ lsFiles = IF useV2 THEN EmptyMap
                         ELSE [id \in {P1, P2} |-> RecordsOf(of(id), DOMAIN of(id))]
            /\ lsTree = IF useV2 THEN EmptyMap
                        ELSE [id \in {P1, P2} |-> LeavesOf(DOMAIN of(id))]
            /\ v2Files = IF useV2 THEN [id \in {P1, P2} |-> of(id)] ELSE EmptyMap
            /\ v2Docs = IF useV2 THEN [id \in {P1, P2} |-> WithStats(v2DefaultDoc, of(id))]
                        ELSE EmptyMap
            /\ vfs = [pc |-> "session", timer |-> FALSE, from |-> P1,
                      saved |-> [persisted |-> TRUE, files |-> f1, active |-> Null],
                      pointer |-> Null, seeded |-> FALSE, before |-> EmptyMap]
    /\ lsIndex = IF useV2 THEN << >> ELSE <<Entry(P1, "My Project"), Entry(P2, "n")>>
    /\ lsActive = IF useV2 THEN "" ELSE P1
    /\ v2Index = IF useV2 THEN <<Entry(P1, "My Project"), Entry(P2, "n")>> ELSE << >>
    /\ v2ActiveProjectId = IF useV2 THEN P1 ELSE ""
    /\ usedIds = {P1, P2}
    /\ call = NoCall /\ pendingTreeChanged = {}
    /\ bgPending = FALSE /\ bgFailed = FALSE /\ ensuring = {}
    /\ ViewIdle /\ SubsIdle /\ BootIdle /\ ParkedIdle /\ IdbIdle
    /\ NormIdle /\ BusIdle /\ ChatIdle /\ MigIdle

NextSwitch ==
    \/ \E id \in {P1, P2} : SwitchProject(id)
    \/ SwitchPersists
    \/ SessionEnds
    \/ NextVfs

SpecSwitch ==
    InitSwitch /\ [][NextSwitch /\ UNCHANGED <<normVars, busVars, chatVars, migVars,
                                              hv, subs, boot, parked, idb>>]_vars

\* C36: when the stored snapshot was built while another project was active
\* than the one active at boot, initializeFromStorage leaves the files of
\* the project active at boot as they were
C36_BootKeepsProject ==
    (vfs.pc = "done" /\ vfs.from # getActiveProjectId)
    => FilesOf(getActiveProjectId) = vfs.before

(***************************************************************************)
(* SpecEarly: createProject called on the v2 route while bootstrapV2 waits *)
(* at one of its awaits.  idb.index is the stored project index: the       *)
(* setProjectsIndex calls handed to fireAndForget run in the order they    *)
(* are made, after the getProjectsIndex the bootstrap has started, and     *)
(* none rejects.  boot.created is the id createProject returned.           *)
(***************************************************************************)
\* the stored indexes whose ids nanoid handed out first
EarlyIndexes ==
    {index \in StoredIndexes : IdsOf(index) = {ProjectIds[k] : k \in 1..Len(index)}}

\* createProject('My Project', false) while the bootstrap is suspended
EarlyCreateProject ==
    /\ useV2
    /\ boot.pc \in {"index", "active", "doc", "files"}
    /\ boot.created = ""
    /\ CreateProject("My Project", FALSE)
    /\ boot' = [boot EXCEPT !.created = ProjectIds[Cardinality(usedIds) + 1]]
    /\ idb' = [index |-> v2Index']

\* the bootstrap goes on; v2CreateProject and v2SetActiveProject at the
\* second await and the lastOpenedAt bump at the end store the cached index
EarlyBoot ==
    \/ (BootV2Starts \/ BootV2Index \/ BootV2Doc \/ BootV2Rejects) /\ UNCHANGED idb
    \/ /\ BootV2Active
       /\ idb' = [index |-> IF NoValidActive(boot.active, v2Index) THEN v2Index'
                             ELSE idb.index]
    \/ /\ BootV2Files
       /\ idb' = [index |-> IF v2ActiveProjectId \in IdsOf(v2Index) THEN v2Index
                             ELSE idb.index]
    \/ \E id \in IdArgs : EnsureDocSettles(id) /\ UNCHANGED <<boot, idb>>
    \/ BgComplete /\ UNCHANGED <<boot, ensuring, idb>>

InitEarly ==
    /\ useV2 = TRUE
    /\ boot \in [pc : {"start"}, index : EarlyIndexes, active : StoredActives,
                  created : {""}]
    /\ idb = [index |-> boot.index]
    /\ call = NoCall /\ pendingTreeChanged = {}
    /\ lsIndex = << >> /\ lsActive = "" /\ lsTree = EmptyMap /\ lsFiles = EmptyMap
    /\ v2Index = << >> /\ v2Docs = EmptyMap /\ v2Files = EmptyMap
    /\ v2ActiveProjectId = "" /\ bgPending = FALSE /\ bgFailed = FALSE
    /\ usedIds = IdsOf(boot.index) /\ ensuring = {}
    /\ ViewIdle /\ SubsIdle /\ VfsIdle /\ ParkedIdle
    /\ NormIdle /\ BusIdle /\ ChatIdle /\ MigIdle

NextEarly == EarlyCreateProject \/ EarlyBoot

SpecEarly ==
    InitEarly /\ [][NextEarly /\ UNCHANGED <<normVars, busVars, chatVars, migVars,
                                             hv, subs, vfs, parked>>]_vars

\* C37: when the bootstrap has completed, a project created while it was
\* suspended is in getProjectList() and in the stored index, and every
\* project of the index stored before is still stored
C37_CreatedKept ==
    (boot.pc = "done" /\ boot.created # "")
    => /\ boot.created \in IdsOf(v2Index)
       /\ boot.created \in IdsOf(idb.index)
       /\ IdsOf(boot.index) \subseteq IdsOf(idb.index)

====
